---- MODULE Spec2Model ----
(***************************************************************************)
(* Transaction submission and confirmation helpers of the Kana swap API    *)
(* examples.                                                               *)
(* The Solana senders:                                                     *)
(*   swapSolanaKit.ts   sendAndConfirmTransaction (poll loop + resender)   *)
(*   part_004           transactionSenderAndConfirmationWaiter             *)
(*   solana-aptos.ts    sendSolanaTransaction (10 attempts)                *)
(*   part_003           sendSolanaTransaction (15 attempts)                *)
(*   evm-solana.ts      sendSolanaTransaction (5 attempts)                 *)
(*   part_005, part_011 sendSolanaTransaction (5 attempts, two more copies)*)
(* The CCTP attestation pollers:                                           *)
(*   part_006           fetchAttestation (300 polls), waitForAttestation   *)
(*   redeem-aptos-evm.ts, part_012  waitForAttestation (120 polls)         *)
(*   solana-evm.ts      waitForAttestation                                 *)
(*   solana-aptos.ts    waitForCctpAttestation                             *)
(* The cross-chain flows:                                                  *)
(*   solana-evm.ts      solanaToAvalancheSwap                              *)
(*   evm-solana.ts      polygonToSolanaSwap                                *)
(*   aptos-evm.ts       aptosToPolygonSwap                                 *)
(*   solana-aptos.ts    solanaToAptosFlow                                  *)
(*   evm-aptos.ts       polygonToAptosSwap (with callClaimWithRetry)       *)
(*   part_014           evmToAptosSwap (with callClaimWithRetry)           *)
(* One behaviour is one call of one helper (fn) against an RPC node whose  *)
(* answers are chosen nondeterministically.  Every await of the source is  *)
(* one step; the synchronous code between two awaits is atomic, as it is   *)
(* on the JavaScript event loop.                                           *)
(***************************************************************************)
EXTENDS Integers, Sequences, FiniteSets, TLC

VARIABLES
  fn,                   \* the helper this call runs
  serializedTx,         \* the signed bytes handed to the helper
  lastValidBlockHeight, \* swapSolanaKit.ts: expiry bound argument
  pc,                   \* position of the foreground async function
  attempt,              \* retry loops: let attempt
  signature,            \* let signature / const signature / const txid
  lastError,            \* part_003: let lastError
  retries,              \* part_004: let retries
  result,               \* what the call returned or threw
  pending,              \* outcome held while awaiting the resender promise
  aborted,              \* abortController.signal.aborted
  resender,             \* position of the background resender
  broadcasts,           \* number of sendTransaction/sendRawTransaction calls started
  landed,               \* the chain has processed the transaction
  seen,                 \* what the RPC node has reported so far (history)
  sourceChain,          \* pollers: the chain whose CCTP domain is looked up
  lookups,              \* pollers: number of fetch calls to the attestation API
  pendings,             \* pollers: number of PENDING answers received
  faults,               \* pollers: number of 404 answers and failed fetches
  domain,               \* pollers: the domain segment of the last URL
  payload,              \* pollers: the ready message the API answered with
  attestation,          \* pollers, flows: the pair the poller returned
  quote,                \* flows: the quote the API answered with
  legs,                 \* flows: the legs started so far, with their outcome
  posts,                \* flows: number of POSTs to /v1/claim
  limited,              \* flows: number of 429 answers to a claim POST
  bodies,               \* flows: the request bodies posted to /v1/claim
  claimRes,             \* flows: which POST's answer the claim step returned
  fresh,                \* flows: number of transactions fetched from the API
  submitted,            \* flows: the transactions handed to sendSolanaTransaction
  onChain,              \* flows: the submitted transactions the chain included
  redeemRes             \* redeem scripts: the answer of POST /v1/redeem

vars == <<fn, serializedTx, lastValidBlockHeight, pc, attempt, signature,
          lastError, retries, result, pending, aborted, resender, broadcasts,
          landed, seen, sourceChain, lookups, pendings, faults, domain,
          payload, attestation, quote, legs, posts, limited, bodies, claimRes,
          fresh, submitted, onChain, redeemRes>>

\* the state of the attestation pollers
pollerVars == <<sourceChain, lookups, pendings, faults, domain, payload>>

\* the state of the cross-chain flows
flowVars == <<quote, legs, posts, limited, bodies, claimRes, fresh,
             submitted, onChain, redeemRes>>

\* what the senders neither read nor write
others == <<pollerVars, flowVars, attestation>>

\* what only the senders read or write
senderVars == <<serializedTx, lastValidBlockHeight, attempt, signature,
                lastError, pending, aborted, resender, broadcasts, landed>>

\* the call's arguments: never written after Init
args == <<fn, serializedTx, lastValidBlockHeight>>

(***************************************************************************)
(* Bounds                                                                  *)
(***************************************************************************)
\* the broadcast counter stops counting here (the resender itself goes on)
MaxBroadcasts == 16
\* slots the status lookup can report
MaxSlot == 2
\* the lookup counters of the pollers stop counting here
MaxLookups == 302
\* answers other than PENDING and ready the attestation API gives in one run
MaxFaults == 1
\* 429 answers the aggregation API gives to the claim requests of one run
MaxLimited == 3

(***************************************************************************)
(* Values                                                                  *)
(***************************************************************************)
Fns == {"swapSolanaKit", "part_004", "solana_aptos", "part_003", "evm_solana",
        "part_005", "part_011"}

Txs == {"txA", "txB"}

NoSig == "null"

\* the node answers a broadcast with the first signature of the bytes sent
SigOf(tx) == IF tx = "txA" THEN "sigA" ELSE "sigB"

\* TransactionError as the RPC serialises it: null, a unit variant (a JSON
\* string) or a struct variant (a JSON object); Custom 6001 = 0x1771
NoErr == "null"
SlippageErr == "InstructionError:Custom:6001"
Errs == {NoErr, "BlockHeightExceeded", SlippageErr}

ErrIsObject(e) == e = SlippageErr

\* messages are token sequences; String.prototype.includes is containment
\* of a contiguous run of tokens
Includes(msg, needle) ==
  \E i \in 1..(Len(msg) - Len(needle) + 1) :
     \A j \in 1..Len(needle) : msg[i + j - 1] = needle[j]

\* err.toString(): a string is itself, an object is "[object Object]"
ErrToString(e) == IF ErrIsObject(e) THEN <<"[object Object]">> ELSE <<e>>

\* JSON.stringify(err)
ErrToJson(e) == <<e>>

\* errors the RPC client throws
NetworkError == <<"fetch failed">>
SlippageSimError == <<"Transaction simulation failed: custom program error: ", "0x1", "771">>
InsufficientFundsError == <<"Transaction simulation failed: custom program error: ", "0x1">>
AlreadyProcessedError == <<"This transaction has already been processed">>
BlockheightExceededError == <<"Signature has expired: ", "block height", " exceeded.">>

\* what a broadcast call can throw: the already-processed rejection needs a
\* transaction the chain has processed
SendErrors ==
  {NetworkError, SlippageSimError, InsufficientFundsError}
    \cup (IF landed THEN {AlreadyProcessedError} ELSE {})

StatusErrors == {NetworkError}

ConfirmErrors == {NetworkError, BlockheightExceededError}

\* value of getSignatureStatus / getSignatureStatuses()[0]: null, or a
\* status of a transaction the chain has processed
NullStatus == [present |-> FALSE, cs |-> "processed", err |-> NoErr, slot |-> 0]

Statuses ==
  {NullStatus} \cup
  (IF landed
   THEN [present : {TRUE}, cs : {"processed", "confirmed", "finalized"},
         err : Errs, slot : 0..MaxSlot]
   ELSE {})

\* status?.value?.confirmationStatus === "confirmed" || ... === "finalized"
IsConfirmed(st) == st.present /\ st.cs \in {"confirmed", "finalized"}

\* status?.err is truthy
HasErr(st) == st.present /\ st.err # NoErr

NoResult == [kind |-> "none", sig |-> NoSig, msg |-> <<>>]
Ok(s) == [kind |-> "ok", sig |-> s, msg |-> <<>>]
Err(m) == [kind |-> "err", sig |-> NoSig, msg |-> m]

\* history of a broadcast call that threw e
SendTags(e) ==
  {"sendThrew"}
    \cup (IF e = AlreadyProcessedError THEN {"dupRejected"} ELSE {})
    \cup (IF Includes(e, <<"0x1">>) THEN {"sendThrew0x1"} ELSE {})
    \cup (IF Includes(e, <<"0x1", "771">>) THEN {"sendThrewSlippage"} ELSE {})

\* a broadcast call is started
Broadcast ==
  broadcasts' = IF broadcasts < MaxBroadcasts THEN broadcasts + 1 ELSE broadcasts

(***************************************************************************)
(* Values of the attestation pollers and the flows                         *)
(***************************************************************************)
Pollers == {"fetchAttestation", "redeem_aptos_evm", "part_012", "solana_evm",
            "part_006", "waitForCctpAttestation", "part_011_waitForAttestation"}

\* the pollers whose URL is built from a chain-to-domain mapping
MapPollers == Pollers \ {"waitForCctpAttestation"}

Flows == {"solanaToAvalancheSwap", "polygonToSolanaSwap", "aptosToPolygonSwap",
          "solanaToAptosFlow", "polygonToAptosSwap", "evmToAptosSwap",
          "avalancheToSolanaSwap"}

\* constant.ts: enum NetworkId
NetworkId ==
  [solana |-> 1, aptos |-> 2, polygon |-> 3, bsc |-> 4, sui |-> 5,
   ethereum |-> 6, base |-> 7, zkSync |-> 9, Avalanche |-> 10, Arbitrum |-> 11]

Chains == {NetworkId[k] : k \in DOMAIN NetworkId}

\* solana-evm.ts: no entry for sui
CHAIN_TO_CCTP_ID ==
  (NetworkId.ethereum :> 0) @@ (NetworkId.Avalanche :> 1)
    @@ (NetworkId.Arbitrum :> 3) @@ (NetworkId.solana :> 5)
    @@ (NetworkId.base :> 6) @@ (NetworkId.polygon :> 7)
    @@ (NetworkId.aptos :> 9)

\* part_006, first map
P6_CHAIN_TO_CCTP_ID ==
  (NetworkId.ethereum :> 0) @@ (NetworkId.Avalanche :> 1)
    @@ (NetworkId.Arbitrum :> 3) @@ (NetworkId.solana :> 5)
    @@ (NetworkId.base :> 6) @@ (NetworkId.polygon :> 7)
    @@ (NetworkId.sui :> 8) @@ (NetworkId.aptos :> 9)

\* part_006, second map
KANA_CHAIN_TO_CCTP_DOMAIN ==
  (NetworkId.ethereum :> 0) @@ (NetworkId.Avalanche :> 1)
    @@ (NetworkId.Arbitrum :> 3) @@ (NetworkId.solana :> 5)
    @@ (NetworkId.base :> 6) @@ (NetworkId.polygon :> 7)
    @@ (NetworkId.sui :> 8) @@ (NetworkId.aptos :> 9)

\* redeem-aptos-evm.ts
CCTP_CHAIN_MAP ==
  (NetworkId.ethereum :> 0) @@ (NetworkId.Avalanche :> 1)
    @@ (NetworkId.Arbitrum :> 3) @@ (NetworkId.solana :> 5)
    @@ (NetworkId.base :> 6) @@ (NetworkId.polygon :> 7)
    @@ (NetworkId.sui :> 8) @@ (NetworkId.aptos :> 9)

\* part_011
P11_CCTP_CHAIN_MAP ==
  (NetworkId.ethereum :> 0) @@ (NetworkId.Avalanche :> 1)
    @@ (NetworkId.Arbitrum :> 3) @@ (NetworkId.solana :> 5)
    @@ (NetworkId.base :> 6) @@ (NetworkId.polygon :> 7)
    @@ (NetworkId.sui :> 8) @@ (NetworkId.aptos :> 9)

\* part_012: four entries
P12_CCTP_CHAIN_MAP ==
  (NetworkId.ethereum :> 0) @@ (NetworkId.Avalanche :> 1)
    @@ (NetworkId.solana :> 5) @@ (NetworkId.aptos :> 9)

\* evm-solana.ts, avalancheToSolanaSwap: no entry for sui and aptos
ES_CHAIN_TO_CCTP_ID ==
  (NetworkId.ethereum :> 0) @@ (NetworkId.Avalanche :> 1)
    @@ (NetworkId.Arbitrum :> 3) @@ (NetworkId.solana :> 5)
    @@ (NetworkId.base :> 6) @@ (NetworkId.polygon :> 7)

\* faulty variant: the entry of solana is missing
P9_CCTP_CHAIN_MAP_AptosOnly == (NetworkId.aptos :> 9)

\* part_009, redeemSolanaToAptos: two entries
P9_CCTP_CHAIN_MAP == (NetworkId.solana :> 5) @@ (NetworkId.aptos :> 9)

\* part_014: no entry for sui
P14_CHAIN_TO_CCTP_ID ==
  (NetworkId.ethereum :> 0) @@ (NetworkId.Avalanche :> 1)
    @@ (NetworkId.Arbitrum :> 3) @@ (NetworkId.solana :> 5)
    @@ (NetworkId.base :> 6) @@ (NetworkId.polygon :> 7)
    @@ (NetworkId.aptos :> 9)

\* `${MAP[chain]}` in the URL template: the number in decimal, or the text
\* "undefined" for a key the map does not have
UrlDomain(map, chain) ==
  IF chain \in DOMAIN map THEN ToString(map[chain]) ELSE "undefined"

\* messages[0] of an answer of the attestation API whose attestation is not
\* "PENDING"; "undefined": the message has no attestation field
Payloads == [message : {"m1", "m2"}, attestation : {"a1", "a2", "undefined"}]
NoPayload == [message |-> "", attestation |-> ""]

\* the object the pollers return
NoAttestation == [messageBytes |-> "", attestationSignature |-> ""]

\* response.data.data[0] of /v1/crossChainQuote, as far as the flows read it
Quotes == [sourceSwapRoute : BOOLEAN, targetSwapRoute : BOOLEAN]
NoQuote == [sourceSwapRoute |-> FALSE, targetSwapRoute |-> FALSE]

\* the redeem scripts
Redeems == {"redeemAptosToEvm", "redeemSolanaToAptos",
            "part_009_redeemSolanaToAptos", "redeemEvmToAptos"}

\* the answer of POST /v1/redeem: the HTTP status, whether the body holds a
\* payload object (claimIx, claimPayload, ...) and which fields it has
RedeemAnswers ==
  [status : {200, 500}, payload : BOOLEAN, to : BOOLEAN, data : BOOLEAN,
   function : BOOLEAN]
NoRedeem ==
  [status |-> 0, payload |-> FALSE, to |-> FALSE, data |-> FALSE,
   function |-> FALSE]

\* the EVM executors; the instruction has an approveIX (the executor starts
\* at "approve") or has none (it starts at "transfer")
Executors == {"ethers_executeEVMInstruction", "viem_executeEVMInstruction",
              "executeEvmInstruction"}

(***************************************************************************)
(* Init: the state when the helper is called                               *)
(***************************************************************************)
Init ==
  /\ fn \in Fns \cup Pollers \cup Flows \cup Redeems \cup Executors
  /\ serializedTx \in (IF fn \in Fns THEN Txs ELSE {"txA"})
  /\ lastValidBlockHeight \in (IF fn = "swapSolanaKit" THEN 0..MaxSlot ELSE {0})
  /\ pc \in (IF fn \in {"swapSolanaKit", "part_004"} THEN {"send1"}
            ELSE IF fn \in Flows THEN {"quote"}
            ELSE IF fn \in Redeems THEN {"attestation"}
            ELSE IF fn \in Executors THEN {"approve", "transfer"}
            ELSE {"top"})
  /\ attempt = 0
  /\ signature = NoSig
  /\ lastError = <<>>
  /\ retries = 0
  /\ result = NoResult
  /\ pending = NoResult
  /\ aborted = FALSE
  /\ resender = "notStarted"
  /\ broadcasts = 0
  /\ landed = FALSE
  /\ seen = {}
  /\ sourceChain \in (IF fn \in MapPollers THEN Chains ELSE {NetworkId.solana})
  /\ lookups = 0
  /\ pendings = 0
  /\ faults = 0
  /\ domain = ""
  /\ payload = NoPayload
  /\ attestation = NoAttestation
  /\ quote = NoQuote
  /\ legs = <<>>
  /\ posts = 0
  /\ limited = 0
  /\ bodies = {}
  /\ claimRes = 0
  /\ fresh = 0
  /\ submitted = <<>>
  /\ onChain = {}
  /\ redeemRes = NoRedeem

(***************************************************************************)
(* The chain: a transaction that was broadcast may be processed            *)
(***************************************************************************)
ChainLands ==
  /\ broadcasts > 0 /\ ~landed /\ pc # "done"
  /\ landed' = TRUE
  /\ UNCHANGED <<others, args, pc, attempt, signature, lastError, retries, result,
                 pending, aborted, resender, broadcasts, seen>>

(***************************************************************************)
(* swapSolanaKit.ts sendAndConfirmTransaction                              *)
(***************************************************************************)
\* lines 34-61: first broadcast; on success the abort controller is made
\* and resender() runs to its first await (the 2 s timer)
KitSend1 ==
  /\ fn = "swapSolanaKit" /\ pc = "send1"
  /\ Broadcast
  /\ \/ /\ signature' = SigOf(serializedTx)
        /\ resender' = "sleeping"
        /\ pc' = "poll"
        /\ UNCHANGED result
     \/ \E e \in SendErrors :
          /\ result' = Err(e)
          /\ pc' = "done"
          /\ UNCHANGED <<signature, resender>>
  /\ UNCHANGED <<others, args, attempt, lastError, retries, pending, aborted, landed, seen>>

\* lines 95-96 and 99-100: abortController.abort(), then await resendPromise
KitStop(outcome) ==
  /\ aborted' = TRUE
  /\ pending' = outcome
  /\ pc' = "awaitResend"

\* lines 65-92: one status lookup and the checks on its value
KitPollValue(st) ==
  IF IsConfirmed(st)
  THEN /\ KitStop(Ok(signature))
       /\ seen' = seen \cup {"confirmed"}
            \cup (IF HasErr(st) THEN {"statusErr"} ELSE {})
  ELSE IF HasErr(st)
  THEN /\ KitStop(Err(<<"Transaction failed: ">> \o ErrToJson(st.err)))
       /\ seen' = seen \cup {"statusErr"}
  ELSE IF st.present /\ st.slot # 0 /\ st.slot > lastValidBlockHeight
  THEN /\ KitStop(Err(<<"Transaction expired">>))
       /\ UNCHANGED seen
  ELSE /\ pc' = "sleep"
       /\ UNCHANGED <<aborted, pending, seen>>

KitPoll ==
  /\ fn = "swapSolanaKit" /\ pc = "poll"
  /\ \/ \E st \in Statuses : KitPollValue(st)
     \/ \E e \in StatusErrors :
          /\ KitStop(Err(e))
          /\ seen' = seen \cup {"statusThrew"}
  /\ UNCHANGED <<others, args, attempt, signature, lastError, retries, result,
                 resender, broadcasts, landed>>

\* line 92: the 1 s timer
KitSleep ==
  /\ fn = "swapSolanaKit" /\ pc = "sleep"
  /\ pc' = "poll"
  /\ UNCHANGED <<others, args, attempt, signature, lastError, retries, result,
                 pending, aborted, resender, broadcasts, landed, seen>>

\* faulty variant: the resender promise is not awaited
KitReturn_NoAwait ==
  /\ fn = "swapSolanaKit" /\ pc = "awaitResend"
  /\ result' = pending
  /\ pc' = "done"
  /\ UNCHANGED <<others, args, attempt, signature, lastError, retries, pending,
                 aborted, resender, broadcasts, landed, seen>>

\* lines 96-97 and 100-101: the resender promise has settled; return or throw
KitReturn ==
  /\ fn = "swapSolanaKit" /\ pc = "awaitResend"
  /\ resender = "finished"
  /\ result' = pending
  /\ pc' = "done"
  /\ UNCHANGED <<others, args, attempt, signature, lastError, retries, pending,
                 aborted, resender, broadcasts, landed, seen>>

\* lines 48-56: the 2 s timer fires and the re-broadcast is started; the
\* abort flag is not read between the timer and the call
KitResenderWake ==
  /\ fn = "swapSolanaKit" /\ resender = "sleeping"
  /\ Broadcast
  /\ resender' = "sending"
  /\ UNCHANGED <<others, args, pc, attempt, signature, lastError, retries, result,
                 pending, aborted, landed, seen>>

\* faulty variant: the loop condition is not read
KitResenderSent_NoCheck ==
  /\ fn = "swapSolanaKit" /\ resender = "sending"
  /\ resender' = "sleeping"
  /\ UNCHANGED <<others, args, pc, attempt, signature, lastError, retries, result,
                 pending, aborted, broadcasts, landed, seen>>

\* lines 47, 56-58: the re-broadcast settles, its error is swallowed, and
\* the loop condition !abortController.signal.aborted is read
KitResenderSent ==
  /\ fn = "swapSolanaKit" /\ resender = "sending"
  /\ \/ UNCHANGED seen
     \/ \E e \in SendErrors :
          seen' = IF e = AlreadyProcessedError THEN seen \cup {"dupRejected"} ELSE seen
  /\ resender' = IF aborted THEN "finished" ELSE "sleeping"
  /\ UNCHANGED <<others, args, pc, attempt, signature, lastError, retries, result,
                 pending, aborted, broadcasts, landed>>

(***************************************************************************)
(* part_004 transactionSenderAndConfirmationWaiter                         *)
(***************************************************************************)
\* lines 32-64: first broadcast, abort controller, resender started
W4Send1 ==
  /\ fn = "part_004" /\ pc = "send1"
  /\ Broadcast
  /\ \/ /\ signature' = SigOf(serializedTx)
        /\ resender' = "sleeping"
        /\ pc' = "confirm"
        /\ UNCHANGED result
     \/ \E e \in SendErrors :
          /\ result' = Err(e)
          /\ pc' = "done"
          /\ UNCHANGED <<signature, resender>>
  /\ UNCHANGED <<others, args, attempt, lastError, retries, pending, aborted, landed, seen>>

\* lines 68-80 and 110-113: confirmTransaction settles; controller.abort()
\* and the await of resenderPromise follow on both paths
W4Confirm ==
  /\ fn = "part_004" /\ pc = "confirm"
  /\ \/ /\ landed
        /\ \E e \in Errs :
             /\ pending' = (IF e # NoErr
                            THEN Err(<<"Transaction failed: ">> \o ErrToJson(e))
                            ELSE NoResult)
             /\ seen' = seen \cup (IF e # NoErr THEN {"statusErr"} ELSE {"confirmed"})
        /\ pc' = "awaitResendTry"
     \/ \E e \in ConfirmErrors :
          /\ pending' = Err(e)
          /\ pc' = "awaitResendCatch"
          /\ UNCHANGED seen
  /\ aborted' = TRUE
  /\ UNCHANGED <<others, args, attempt, signature, lastError, retries, result,
                 resender, broadcasts, landed>>

\* faulty variant: the resender promise is not awaited in the try block
W4AfterAwait_NoAwait ==
  /\ fn = "part_004" /\ pc = "awaitResendTry"
  /\ IF pending.kind = "err"
     THEN pc' = "awaitResendCatch" /\ UNCHANGED retries
     ELSE pc' = "getTx" /\ retries' = 15
  /\ UNCHANGED <<others, args, attempt, signature, lastError, result, pending,
                 aborted, resender, broadcasts, landed, seen>>

\* lines 80-92: the resender promise has settled; a confirmation carrying
\* an error is thrown into the catch block, otherwise let retries = 15
W4AfterAwait ==
  /\ fn = "part_004" /\ pc = "awaitResendTry"
  /\ resender = "finished"
  /\ IF pending.kind = "err"
     THEN pc' = "awaitResendCatch" /\ UNCHANGED retries
     ELSE pc' = "getTx" /\ retries' = 15
  /\ UNCHANGED <<others, args, attempt, signature, lastError, result, pending,
                 aborted, resender, broadcasts, landed, seen>>

\* lines 93-109: getTransaction; a response is returned, null costs one
\* retry and a 1 s wait, a throw goes to the catch block
W4GetTx ==
  /\ fn = "part_004" /\ pc = "getTx"
  /\ \/ /\ landed
        /\ pending' = Ok(signature)
        /\ pc' = "returning"
        /\ UNCHANGED retries
     \/ /\ pc' = "sleepTx"
        /\ UNCHANGED <<pending, retries>>
     \/ \E e \in StatusErrors :
          /\ pending' = Err(e)
          /\ pc' = "awaitResendCatch"
          /\ UNCHANGED retries
  /\ UNCHANGED <<others, args, attempt, signature, lastError, result, aborted,
                 resender, broadcasts, landed, seen>>

\* lines 104-109: the 1 s timer, retries--, and return null at zero
W4SleepTx ==
  /\ fn = "part_004" /\ pc = "sleepTx"
  /\ retries' = retries - 1
  /\ IF retries' > 0
     THEN pc' = "getTx" /\ UNCHANGED pending
     ELSE pc' = "returning" /\ pending' = Ok(NoSig)
  /\ UNCHANGED <<others, args, attempt, signature, lastError, result, aborted,
                 resender, broadcasts, landed, seen>>

\* lines 100, 109: return from inside the try block
W4Return ==
  /\ fn = "part_004" /\ pc = "returning"
  /\ result' = pending
  /\ pc' = "done"
  /\ UNCHANGED <<others, args, attempt, signature, lastError, retries, pending,
                 aborted, resender, broadcasts, landed, seen>>

\* lines 112-119: controller.abort(), await resenderPromise, throw error
W4Throw ==
  /\ fn = "part_004" /\ pc = "awaitResendCatch"
  /\ resender = "finished"
  /\ result' = pending
  /\ pc' = "done"
  /\ UNCHANGED <<others, args, attempt, signature, lastError, retries, pending,
                 aborted, resender, broadcasts, landed, seen>>

\* lines 46-55: the 2 s timer fires; return when aborted, else re-broadcast
W4ResenderWake ==
  /\ fn = "part_004" /\ resender = "sleeping"
  /\ IF aborted
     THEN resender' = "finished" /\ UNCHANGED broadcasts
     ELSE Broadcast /\ resender' = "sending"
  /\ UNCHANGED <<others, args, pc, attempt, signature, lastError, retries, result,
                 pending, aborted, landed, seen>>

\* lines 51-59: the re-broadcast settles; its error is logged and ignored
W4ResenderSent ==
  /\ fn = "part_004" /\ resender = "sending"
  /\ \/ UNCHANGED seen
     \/ \E e \in SendErrors :
          seen' = IF e = AlreadyProcessedError THEN seen \cup {"dupRejected"} ELSE seen
  /\ resender' = "sleeping"
  /\ UNCHANGED <<others, args, pc, attempt, signature, lastError, retries, result,
                 pending, aborted, broadcasts, landed>>

(***************************************************************************)
(* solana-aptos.ts sendSolanaTransaction                                   *)
(***************************************************************************)
SA_MAX_ATTEMPTS == 10

SA_TimeoutMsg == <<"Transaction failed to land (timeout)">>

\* line 261: if (!signature || (attempt > 1))
SA_ShouldSend(sig, att) == sig = NoSig \/ att > 1

\* lines 261-262: the send branch starts with a 2 s wait from attempt 2 on;
\* when the branch is skipped the blockhash check follows directly
SA_AfterStatus(sig, att) ==
  IF SA_ShouldSend(sig, att)
  THEN (IF att > 1 THEN "sleep" ELSE "send")
  ELSE "validity"

\* lines 245-246 and 283: loop test, attempt++, and the throw after the loop
SA_Top ==
  /\ fn = "solana_aptos" /\ pc = "top"
  /\ IF attempt < SA_MAX_ATTEMPTS
     THEN /\ attempt' = attempt + 1
          /\ pc' = (IF signature # NoSig THEN "status"
                    ELSE SA_AfterStatus(signature, attempt'))
          /\ UNCHANGED result
     ELSE /\ result' = Err(SA_TimeoutMsg)
          /\ pc' = "done"
          /\ UNCHANGED attempt
  /\ UNCHANGED <<others, args, signature, lastError, retries, pending, aborted,
                 resender, broadcasts, landed, seen>>

\* faulty variant: the catch block swallows every error
SA_Catch_SwallowAll(msg) ==
  /\ pc' = "top"
  /\ UNCHANGED result

\* lines 277-281: Expired is rethrown, every other error is swallowed and
\* the loop goes on with the signature it has
SA_Catch(msg) ==
  IF Includes(msg, <<"Expired">>) \/ Includes(msg, <<"block height">>)
  THEN /\ result' = Err(<<"Expired">>)
       /\ pc' = "done"
  ELSE /\ pc' = "top"
       /\ UNCHANGED result

\* lines 250-257: the status lookup
SA_Status ==
  /\ fn = "solana_aptos" /\ pc = "status"
  /\ \/ \E st \in Statuses :
          /\ seen' = seen
               \cup (IF IsConfirmed(st) THEN {"confirmed"} ELSE {})
               \cup (IF HasErr(st) THEN {"statusErr"} ELSE {})
               \cup (IF ~IsConfirmed(st) /\ st.present /\ st.err = "BlockHeightExceeded"
                     THEN {"expiry"} ELSE {})
          /\ IF IsConfirmed(st)
             THEN /\ result' = Ok(signature)
                  /\ pc' = "done"
             ELSE IF st.present /\ st.err # NoErr
                     /\ Includes(ErrToString(st.err), <<"BlockHeightExceeded">>)
             THEN SA_Catch(<<"Expired">>)
             ELSE /\ pc' = SA_AfterStatus(signature, attempt)
                  /\ UNCHANGED result
     \/ \E e \in StatusErrors :
          /\ SA_Catch(e)
          /\ seen' = seen \cup {"statusThrew"}
  /\ UNCHANGED <<others, args, attempt, signature, lastError, retries, pending,
                 aborted, resender, broadcasts, landed>>

\* line 262: the 2 s timer
SA_Sleep ==
  /\ fn = "solana_aptos" /\ pc = "sleep"
  /\ pc' = "send"
  /\ UNCHANGED <<others, args, attempt, signature, lastError, retries, result,
                 pending, aborted, resender, broadcasts, landed, seen>>

\* lines 264-267: sendRawTransaction
SA_Send ==
  /\ fn = "solana_aptos" /\ pc = "send"
  /\ Broadcast
  /\ \/ /\ signature' = SigOf(serializedTx)
        /\ pc' = "validity"
        /\ UNCHANGED <<result, seen>>
     \/ \E e \in SendErrors :
          /\ SA_Catch(e)
          /\ seen' = seen \cup {"sendThrew"}
               \cup (IF e = AlreadyProcessedError THEN {"dupRejected"} ELSE {})
          /\ UNCHANGED signature
  /\ UNCHANGED <<others, args, attempt, lastError, retries, pending, aborted,
                 resender, landed>>

\* lines 272-275: isBlockhashValid
SA_Validity ==
  /\ fn = "solana_aptos" /\ pc = "validity"
  /\ \/ /\ pc' = "top"
        /\ UNCHANGED <<result, seen>>
     \/ /\ SA_Catch(<<"Expired", ": ", "block height", " exceeded">>)
        /\ seen' = seen \cup {"expiry"}
     \/ \E e \in StatusErrors :
          /\ SA_Catch(e)
          /\ UNCHANGED seen
  /\ UNCHANGED <<others, args, attempt, signature, lastError, retries, pending,
                 aborted, resender, broadcasts, landed>>

(***************************************************************************)
(* part_003 sendSolanaTransaction                                          *)
(***************************************************************************)
P3_MAX_ATTEMPTS == 15

P3_FailedMsg ==
  <<"Failed to send transaction after ", ToString(P3_MAX_ATTEMPTS), " attempts">>

P3_SlippageMsg == <<"Slippage: Out Amount less than the slippage amount">>

\* faulty variant: every third attempt counted from 0
P3_ShouldSend_Mod3(sig, att) == sig = NoSig \/ (att > 3 /\ att % 3 = 0)

\* line 70: if (!signature || (attempt > 3 && (attempt - 4) % 3 === 0))
P3_ShouldSend(sig, att) == sig = NoSig \/ (att > 3 /\ (att - 4) % 3 = 0)

\* lines 70-76 and 100-102: the send branch (after a 5 s wait from attempt
\* 2 on) or the idle 5 s wait
P3_AfterStatus(sig, att) ==
  IF P3_ShouldSend(sig, att)
  THEN (IF att > 1 THEN "sleep" ELSE "send")
  ELSE "idle"

\* lines 47-48 and 113-119: loop test, attempt++, and the code after the loop
P3_Top ==
  /\ fn = "part_003" /\ pc = "top"
  /\ IF attempt < P3_MAX_ATTEMPTS
     THEN /\ attempt' = attempt + 1
          /\ pc' = (IF signature # NoSig THEN "status"
                    ELSE P3_AfterStatus(signature, attempt'))
          /\ UNCHANGED result
     ELSE /\ result' = (IF signature # NoSig THEN Ok(signature)
                        ELSE IF lastError # <<>> THEN Err(lastError)
                        ELSE Err(P3_FailedMsg))
          /\ pc' = "done"
          /\ UNCHANGED attempt
  /\ UNCHANGED <<others, args, signature, lastError, retries, pending, aborted,
                 resender, broadcasts, landed, seen>>

\* lines 53-66: the status lookup inside its own try/catch
P3_Status ==
  /\ fn = "part_003" /\ pc = "status"
  /\ \/ \E st \in Statuses :
          /\ seen' = seen
               \cup (IF IsConfirmed(st) THEN {"confirmed"} ELSE {})
               \cup (IF HasErr(st) THEN {"statusErr"} ELSE {})
               \cup (IF st.present /\ st.err = SlippageErr THEN {"slippage"} ELSE {})
          /\ IF IsConfirmed(st)
             THEN /\ result' = Ok(signature)
                  /\ pc' = "done"
             ELSE /\ pc' = P3_AfterStatus(signature, attempt)
                  /\ UNCHANGED result
          /\ UNCHANGED signature
     \/ \E e \in StatusErrors :
          /\ signature' = NoSig
          /\ pc' = P3_AfterStatus(signature', attempt)
          /\ seen' = seen \cup {"statusThrew"}
          /\ UNCHANGED result
  /\ UNCHANGED <<others, args, attempt, lastError, retries, pending, aborted,
                 resender, broadcasts, landed>>

\* lines 72-74: the 5 s timer before a send
P3_Sleep ==
  /\ fn = "part_003" /\ pc = "sleep"
  /\ pc' = "send"
  /\ UNCHANGED <<others, args, attempt, signature, lastError, retries, result,
                 pending, aborted, resender, broadcasts, landed, seen>>

\* line 101: the 5 s timer of an attempt that does not send
P3_Idle ==
  /\ fn = "part_003" /\ pc = "idle"
  /\ pc' = "top"
  /\ UNCHANGED <<others, args, attempt, signature, lastError, retries, result,
                 pending, aborted, resender, broadcasts, landed, seen>>

\* lines 103-111: the outer catch block
P3_Catch(msg) ==
  /\ lastError' = msg
  /\ IF Includes(msg, <<"0x1", "771">>)
     THEN /\ result' = Err(P3_SlippageMsg)
          /\ pc' = "done"
          /\ UNCHANGED signature
     ELSE /\ signature' = NoSig
          /\ pc' = "top"
          /\ UNCHANGED result

\* lines 77-81: sendRawTransaction
P3_Send ==
  /\ fn = "part_003" /\ pc = "send"
  /\ Broadcast
  /\ \/ /\ signature' = SigOf(serializedTx)
        /\ pc' = "confirm"
        /\ UNCHANGED <<result, lastError, seen>>
     \/ \E e \in SendErrors :
          /\ P3_Catch(e)
          /\ seen' = seen \cup {"sendThrew"}
               \cup (IF e = AlreadyProcessedError THEN {"dupRejected"} ELSE {})
  /\ UNCHANGED <<others, args, attempt, retries, pending, aborted, resender, landed>>

\* lines 83-99: confirmTransaction raced against the 5 s timeout; a
\* resolved wait returns the signature, a rejected one is swallowed
P3_Confirm ==
  /\ fn = "part_003" /\ pc = "confirm"
  /\ \/ /\ landed
        /\ \E e \in Errs :
             seen' = seen \cup {"confirmed"}
               \cup (IF e # NoErr THEN {"confirmErr"} ELSE {})
        /\ result' = Ok(signature)
        /\ pc' = "done"
     \/ /\ pc' = "top"
        /\ UNCHANGED <<result, seen>>
  /\ UNCHANGED <<others, args, attempt, signature, lastError, retries, pending,
                 aborted, resender, broadcasts, landed>>

(***************************************************************************)
(* evm-solana.ts sendSolanaTransaction                                     *)
(***************************************************************************)
ES_MAX_ATTEMPTS == 5

ES_FailedMsg ==
  <<"Failed to send transaction after ", ToString(ES_MAX_ATTEMPTS), " attempts">>

\* faulty variant: the send condition of part_003 pasted into this copy
ES_ShouldSend_EveryThird(sig, att) == sig = NoSig \/ (att > 3 /\ (att - 4) % 3 = 0)

\* line 224: if (!signature || (attempt > 1))
ES_ShouldSend(sig, att) == sig = NoSig \/ att > 1

\* lines 224-225 and 243: the send branch (after a 3 s wait from attempt 2
\* on); when the branch is skipped the attempt is over
ES_AfterStatus(sig, att) ==
  IF ES_ShouldSend(sig, att)
  THEN (IF att > 1 THEN "sleep" ELSE "send")
  ELSE "top"

\* lines 214-215 and 253: loop test, attempt++, and the throw after the loop
ES_Top ==
  /\ fn = "evm_solana" /\ pc = "top"
  /\ IF attempt < ES_MAX_ATTEMPTS
     THEN /\ attempt' = attempt + 1
          /\ pc' = (IF signature # NoSig THEN "status"
                    ELSE ES_AfterStatus(signature, attempt'))
          /\ UNCHANGED result
     ELSE /\ result' = Err(ES_FailedMsg)
          /\ pc' = "done"
          /\ UNCHANGED attempt
  /\ UNCHANGED <<others, args, signature, lastError, retries, pending, aborted,
                 resender, broadcasts, landed, seen>>

\* faulty variant: the catch block rethrows whatever it caught
ES_Catch_Rethrow(msg) ==
  /\ result' = Err(msg)
  /\ pc' = "done"
  /\ UNCHANGED signature

\* lines 244-250: the catch block
ES_Catch(msg) ==
  IF Includes(msg, <<"0x1", "771">>)
  THEN /\ result' = Err(<<"Slippage Error">>)
       /\ pc' = "done"
       /\ UNCHANGED signature
  ELSE IF Includes(msg, <<"0x1">>) /\ attempt > 2
  THEN /\ result' = Err(<<"Insufficient Funds">>)
       /\ pc' = "done"
       /\ UNCHANGED signature
  ELSE /\ signature' = NoSig
       /\ pc' = "top"
       /\ UNCHANGED result

\* lines 217-222: the status lookup
ES_Status ==
  /\ fn = "evm_solana" /\ pc = "status"
  /\ \/ \E st \in Statuses :
          /\ seen' = seen
               \cup (IF IsConfirmed(st) THEN {"confirmed"} ELSE {})
               \cup (IF HasErr(st) THEN {"statusErr"} ELSE {})
               \cup (IF st.present /\ st.err = SlippageErr THEN {"slippage"} ELSE {})
          /\ IF IsConfirmed(st)
             THEN /\ result' = Ok(signature)
                  /\ pc' = "done"
             ELSE /\ pc' = ES_AfterStatus(signature, attempt)
                  /\ UNCHANGED result
          /\ UNCHANGED signature
     \/ \E e \in StatusErrors :
          /\ ES_Catch(e)
          /\ seen' = seen \cup {"statusThrew"}
  /\ UNCHANGED <<others, args, attempt, lastError, retries, pending, aborted,
                 resender, broadcasts, landed>>

\* line 225: the 3 s timer
ES_Sleep ==
  /\ fn = "evm_solana" /\ pc = "sleep"
  /\ pc' = "send"
  /\ UNCHANGED <<others, args, attempt, signature, lastError, retries, result,
                 pending, aborted, resender, broadcasts, landed, seen>>

\* lines 227-231: sendRawTransaction
ES_Send ==
  /\ fn = "evm_solana" /\ pc = "send"
  /\ Broadcast
  /\ \/ /\ signature' = SigOf(serializedTx)
        /\ pc' = "confirm"
        /\ UNCHANGED <<result, seen>>
     \/ \E e \in SendErrors :
          /\ ES_Catch(e)
          /\ seen' = seen \cup SendTags(e)
  /\ UNCHANGED <<others, args, attempt, lastError, retries, pending, aborted,
                 resender, landed>>

\* lines 233-242: confirmTransaction raced against the 5 s timeout; a
\* resolved wait returns the signature, a rejected one is swallowed
ES_Confirm ==
  /\ fn = "evm_solana" /\ pc = "confirm"
  /\ \/ /\ landed
        /\ \E e \in Errs :
             seen' = seen \cup {"confirmed"}
               \cup (IF e # NoErr THEN {"confirmErr"} ELSE {})
        /\ result' = Ok(signature)
        /\ pc' = "done"
     \/ /\ pc' = "top"
        /\ UNCHANGED <<result, seen>>
  /\ UNCHANGED <<others, args, attempt, signature, lastError, retries, pending,
                 aborted, resender, broadcasts, landed>>

(***************************************************************************)
(* part_005 sendSolanaTransaction                                          *)
(***************************************************************************)
P5_MAX_ATTEMPTS == 5

P5_FailedMsg ==
  <<"Failed to send transaction after ", ToString(P5_MAX_ATTEMPTS), " attempts">>

\* line 548: if (!signature || (attempt > 1))
P5_ShouldSend(sig, att) == sig = NoSig \/ att > 1

\* lines 548-549: the send branch (after a 3 s wait from attempt 2 on);
\* when the branch is skipped the attempt is over
P5_AfterStatus(sig, att) ==
  IF P5_ShouldSend(sig, att)
  THEN (IF att > 1 THEN "sleep" ELSE "send")
  ELSE "top"

\* lines 536-537 and 587: loop test, attempt++, and the throw after the loop
P5_Top ==
  /\ fn = "part_005" /\ pc = "top"
  /\ IF attempt < P5_MAX_ATTEMPTS
     THEN /\ attempt' = attempt + 1
          /\ pc' = (IF signature # NoSig THEN "status"
                    ELSE P5_AfterStatus(signature, attempt'))
          /\ UNCHANGED result
     ELSE /\ result' = (IF lastError # <<>> THEN Err(lastError) ELSE Err(P5_FailedMsg))
          /\ pc' = "done"
          /\ UNCHANGED attempt
  /\ UNCHANGED <<others, args, signature, lastError, retries, pending, aborted,
                 resender, broadcasts, landed, seen>>

\* lines 571-584: the catch block
P5_Catch(msg) ==
  /\ lastError' = msg
  /\ IF Includes(msg, <<"0x1", "771">>)
     THEN /\ result' = Err(<<"Slippage: Out Amount less than minimum">>)
          /\ pc' = "done"
          /\ UNCHANGED signature
     ELSE IF Includes(msg, <<"0x1">>) /\ attempt > 2
     THEN /\ result' = Err(<<"Insufficient funds (", "0x1", ").">>)
          /\ pc' = "done"
          /\ UNCHANGED signature
     ELSE /\ signature' = NoSig
          /\ pc' = "top"
          /\ UNCHANGED result

\* lines 540-545: the status lookup
P5_Status ==
  /\ fn = "part_005" /\ pc = "status"
  /\ \/ \E st \in Statuses :
          /\ seen' = seen
               \cup (IF IsConfirmed(st) THEN {"confirmed"} ELSE {})
               \cup (IF HasErr(st) THEN {"statusErr"} ELSE {})
               \cup (IF st.present /\ st.err = SlippageErr THEN {"slippage"} ELSE {})
          /\ IF IsConfirmed(st)
             THEN /\ result' = Ok(signature)
                  /\ pc' = "done"
             ELSE /\ pc' = P5_AfterStatus(signature, attempt)
                  /\ UNCHANGED result
          /\ UNCHANGED <<signature, lastError>>
     \/ \E e \in StatusErrors :
          /\ P5_Catch(e)
          /\ seen' = seen \cup {"statusThrew"}
  /\ UNCHANGED <<others, args, attempt, retries, pending, aborted,
                 resender, broadcasts, landed>>

\* line 549: the 3 s timer
P5_Sleep ==
  /\ fn = "part_005" /\ pc = "sleep"
  /\ pc' = "send"
  /\ UNCHANGED <<others, args, attempt, signature, lastError, retries, result,
                 pending, aborted, resender, broadcasts, landed, seen>>

\* lines 551-555: sendRawTransaction
P5_Send ==
  /\ fn = "part_005" /\ pc = "send"
  /\ Broadcast
  /\ \/ /\ signature' = SigOf(serializedTx)
        /\ pc' = "confirm"
        /\ UNCHANGED <<result, lastError, seen>>
     \/ \E e \in SendErrors :
          /\ P5_Catch(e)
          /\ seen' = seen \cup SendTags(e)
  /\ UNCHANGED <<others, args, attempt, retries, pending, aborted, resender, landed>>

\* lines 558-569: confirmTransaction raced against the 5 s timeout; a
\* resolved wait returns the signature, a rejected one is swallowed
P5_Confirm ==
  /\ fn = "part_005" /\ pc = "confirm"
  /\ \/ /\ landed
        /\ \E e \in Errs :
             seen' = seen \cup {"confirmed"}
               \cup (IF e # NoErr THEN {"confirmErr"} ELSE {})
        /\ result' = Ok(signature)
        /\ pc' = "done"
     \/ /\ pc' = "top"
        /\ UNCHANGED <<result, seen>>
  /\ UNCHANGED <<others, args, attempt, signature, lastError, retries, pending,
                 aborted, resender, broadcasts, landed>>

(***************************************************************************)
(* part_011 sendSolanaTransaction (Aptos-to-Solana redeem)                 *)
(***************************************************************************)
P11_MAX_ATTEMPTS == 5

P11_FailedMsg ==
  <<"Failed to send transaction after ", ToString(5), " attempts">>

\* line 364: if (!signature || (attempt > 1))
P11_ShouldSend(sig, att) == sig = NoSig \/ att > 1

\* lines 364-365: the send branch (after a 2 s wait from attempt 2 on);
\* when the branch is skipped the attempt is over
P11_AfterStatus(sig, att) ==
  IF P11_ShouldSend(sig, att)
  THEN (IF att > 1 THEN "sleep" ELSE "send")
  ELSE "top"

\* lines 354-355 and 394: loop test, attempt++, and the throw after the loop
P11_Top ==
  /\ fn = "part_011" /\ pc = "top"
  /\ IF attempt < P11_MAX_ATTEMPTS
     THEN /\ attempt' = attempt + 1
          /\ pc' = (IF signature # NoSig THEN "status"
                    ELSE P11_AfterStatus(signature, attempt'))
          /\ UNCHANGED result
     ELSE /\ result' = Err(P11_FailedMsg)
          /\ pc' = "done"
          /\ UNCHANGED attempt
  /\ UNCHANGED <<others, args, signature, lastError, retries, pending, aborted,
                 resender, broadcasts, landed, seen>>

\* lines 384-391: the catch block
P11_Catch(msg) ==
  /\ UNCHANGED lastError
  /\ IF Includes(msg, <<"0x1">>)
     THEN /\ result' = Err(<<"Transaction failed (", "0x1", "). Check if already redeemed.">>)
          /\ pc' = "done"
          /\ UNCHANGED signature
     ELSE /\ signature' = NoSig
          /\ pc' = "top"
          /\ UNCHANGED result

\* lines 357-362: the status lookup
P11_Status ==
  /\ fn = "part_011" /\ pc = "status"
  /\ \/ \E st \in Statuses :
          /\ seen' = seen
               \cup (IF IsConfirmed(st) THEN {"confirmed"} ELSE {})
               \cup (IF HasErr(st) THEN {"statusErr"} ELSE {})
               \cup (IF st.present /\ st.err = SlippageErr THEN {"slippage"} ELSE {})
          /\ IF IsConfirmed(st)
             THEN /\ result' = Ok(signature)
                  /\ pc' = "done"
             ELSE /\ pc' = P11_AfterStatus(signature, attempt)
                  /\ UNCHANGED result
          /\ UNCHANGED <<signature, lastError>>
     \/ \E e \in StatusErrors :
          /\ P11_Catch(e)
          /\ seen' = seen \cup {"statusThrew"}
  /\ UNCHANGED <<others, args, attempt, retries, pending, aborted,
                 resender, broadcasts, landed>>

\* line 365: the 2 s timer
P11_Sleep ==
  /\ fn = "part_011" /\ pc = "sleep"
  /\ pc' = "send"
  /\ UNCHANGED <<others, args, attempt, signature, lastError, retries, result,
                 pending, aborted, resender, broadcasts, landed, seen>>

\* lines 367-371: sendRawTransaction
P11_Send ==
  /\ fn = "part_011" /\ pc = "send"
  /\ Broadcast
  /\ \/ /\ signature' = SigOf(serializedTx)
        /\ pc' = "confirm"
        /\ UNCHANGED <<result, lastError, seen>>
     \/ \E e \in SendErrors :
          /\ P11_Catch(e)
          /\ seen' = seen \cup SendTags(e)
  /\ UNCHANGED <<others, args, attempt, retries, pending, aborted, resender, landed>>

\* lines 373-382: confirmTransaction raced against the 5 s timeout; a
\* resolved wait returns the signature, a rejected one is swallowed
P11_Confirm ==
  /\ fn = "part_011" /\ pc = "confirm"
  /\ \/ /\ landed
        /\ \E e \in Errs :
             seen' = seen \cup {"confirmed"}
               \cup (IF e # NoErr THEN {"confirmErr"} ELSE {})
        /\ result' = Ok(signature)
        /\ pc' = "done"
     \/ /\ pc' = "top"
        /\ UNCHANGED <<result, seen>>
  /\ UNCHANGED <<others, args, attempt, signature, lastError, retries, pending,
                 aborted, resender, broadcasts, landed>>

(***************************************************************************)
(* The attestation pollers.  The attestation API of Circle answers a       *)
(* lookup with PENDING, with a ready message, with 404, with an empty      *)
(* message list, or the fetch fails.                                       *)
(***************************************************************************)
Inc(n) == IF n < MaxLookups THEN n + 1 ELSE n

\* const res = await fetch(url); ... await res.json()
Fetch(d) ==
  /\ lookups' = Inc(lookups)
  /\ domain' = d

\* messages[0].attestation === "PENDING"
AnswerPending ==
  /\ pendings' = Inc(pendings)
  /\ UNCHANGED <<faults, payload, seen>>

\* a 404 ("notFound"), a 200 without messages ("empty"), a rejected fetch
\* ("lookupThrew")
AnswerFault(tag) ==
  /\ faults < MaxFaults
  /\ faults' = faults + 1
  /\ seen' = seen \cup {tag}
  /\ UNCHANGED <<pendings, payload>>

\* faulty variant: the two fields change places
AttestationOf_Swapped(p) ==
  [messageBytes |-> p.attestation, attestationSignature |-> p.message]

\* return { messageBytes: msg.message, attestationSignature: msg.attestation }
AttestationOf(p) ==
  [messageBytes |-> p.message, attestationSignature |-> p.attestation]

\* a ready message p arrives and the poller returns
AnswerReady(p) ==
  /\ payload' = p
  /\ attestation' = AttestationOf(p)
  /\ result' = Ok(NoSig)
  /\ pc' = "done"
  /\ UNCHANGED <<pendings, faults, seen>>

PollerThrow(m) ==
  /\ result' = Err(m)
  /\ pc' = "done"
  /\ UNCHANGED attestation

PollerRetry ==
  /\ pc' = "sleep"
  /\ UNCHANGED <<result, attestation>>

\* await new Promise((r) => setTimeout(r, pollInterval))
PollerSleep(f) ==
  /\ fn = f /\ pc = "sleep"
  /\ pc' = "top"
  /\ UNCHANGED <<fn, senderVars, pollerVars, flowVars, retries, result,
                 attestation, seen>>

\* part_006 fetchAttestation: maxRetries = 300 (the default)
FA_maxRetries == 300

FA_TimeoutMsg == <<"Attestation timeout exceeded">>

\* part_006 lines 127-153: no try/catch; a response that is not ok throws
FA_Poll ==
  /\ fn = "fetchAttestation" /\ pc = "top"
  /\ IF retries < FA_maxRetries
     THEN /\ Fetch(UrlDomain(KANA_CHAIN_TO_CCTP_DOMAIN, sourceChain))
          /\ \/ AnswerPending /\ PollerRetry /\ retries' = retries + 1
             \/ (\E p \in Payloads : AnswerReady(p)) /\ UNCHANGED retries
             \/ AnswerFault("empty") /\ PollerRetry /\ retries' = retries + 1
             \/ /\ AnswerFault("notFound")
                /\ PollerThrow(<<"Circle API error">>)
                /\ UNCHANGED retries
             \/ /\ AnswerFault("lookupThrew")
                /\ PollerThrow(NetworkError)
                /\ UNCHANGED retries
     ELSE /\ PollerThrow(FA_TimeoutMsg)
          /\ UNCHANGED <<lookups, domain, pendings, faults, payload, seen,
                         retries>>
  /\ UNCHANGED <<fn, senderVars, sourceChain, flowVars>>

fetchAttestation == FA_Poll \/ PollerSleep("fetchAttestation")

\* redeem-aptos-evm.ts waitForAttestation: const maxRetries = 120
RA_maxRetries == 120

RA_TimeoutMsg == <<"CCTP Attestation Timed Out">>

\* faulty variant: a failed lookup does not count as a retry
BoundedPoll_FreeFaults(f, map) ==
  /\ fn = f /\ pc = "top"
  /\ IF retries < RA_maxRetries
     THEN /\ Fetch(UrlDomain(map, sourceChain))
          /\ \/ AnswerPending /\ PollerRetry /\ retries' = retries + 1
             \/ (\E p \in Payloads : AnswerReady(p)) /\ UNCHANGED retries
             \/ /\ \E tag \in {"empty", "notFound", "lookupThrew"} :
                     AnswerFault(tag)
                /\ PollerRetry
                /\ UNCHANGED retries
     ELSE /\ PollerThrow(RA_TimeoutMsg)
          /\ UNCHANGED <<lookups, domain, pendings, faults, payload, seen,
                         retries>>
  /\ UNCHANGED <<fn, senderVars, sourceChain, flowVars>>

\* redeem-aptos-evm.ts lines 127-144: the try/catch swallows every failure
\* and a response that is not ok is skipped; both count as a retry
BoundedPoll(f, map) ==
  /\ fn = f /\ pc = "top"
  /\ IF retries < RA_maxRetries
     THEN /\ Fetch(UrlDomain(map, sourceChain))
          /\ \/ AnswerPending /\ PollerRetry /\ retries' = retries + 1
             \/ (\E p \in Payloads : AnswerReady(p)) /\ UNCHANGED retries
             \/ /\ \E tag \in {"empty", "notFound", "lookupThrew"} :
                     AnswerFault(tag)
                /\ PollerRetry
                /\ retries' = retries + 1
     ELSE /\ PollerThrow(RA_TimeoutMsg)
          /\ UNCHANGED <<lookups, domain, pendings, faults, payload, seen,
                         retries>>
  /\ UNCHANGED <<fn, senderVars, sourceChain, flowVars>>

RA_waitForAttestation ==
  \/ BoundedPoll("redeem_aptos_evm", CCTP_CHAIN_MAP)
  \/ PollerSleep("redeem_aptos_evm")

\* part_012 lines 117-133: the same loop over the four-entry map
\* part_011 lines 197-232: the same loop
P11_waitForAttestation ==
  \/ BoundedPoll("part_011_waitForAttestation", P11_CCTP_CHAIN_MAP)
  \/ PollerSleep("part_011_waitForAttestation")

P12_waitForAttestation ==
  \/ BoundedPoll("part_012", P12_CCTP_CHAIN_MAP)
  \/ PollerSleep("part_012")

\* solana-evm.ts lines 196-210: while (true), no try/catch, res.ok not read
UnboundedPoll(f, map) ==
  /\ fn = f /\ pc = "top"
  /\ Fetch(UrlDomain(map, sourceChain))
  /\ \/ AnswerPending /\ PollerRetry
     \/ \E p \in Payloads : AnswerReady(p)
     \/ (\E tag \in {"empty", "notFound"} : AnswerFault(tag)) /\ PollerRetry
     \/ AnswerFault("lookupThrew") /\ PollerThrow(NetworkError)
  /\ UNCHANGED <<fn, senderVars, sourceChain, flowVars, retries>>

SE_waitForAttestation ==
  \/ UnboundedPoll("solana_evm", CHAIN_TO_CCTP_ID)
  \/ PollerSleep("solana_evm")

\* part_006 lines 20-34: the same loop
P6_waitForAttestation ==
  \/ UnboundedPoll("part_006", P6_CHAIN_TO_CCTP_ID)
  \/ PollerSleep("part_006")

\* solana-aptos.ts lines 302-315: while (true); the URL names domain 5; the
\* try/catch swallows a failed fetch and the TypeError of reading
\* json.messages[0] of an answer without messages
WC_Poll ==
  /\ fn = "waitForCctpAttestation" /\ pc = "top"
  /\ Fetch("5")
  /\ \/ AnswerPending /\ PollerRetry
     \/ \E p \in Payloads : AnswerReady(p)
     \/ /\ \E tag \in {"empty", "notFound", "lookupThrew"} : AnswerFault(tag)
        /\ PollerRetry
  /\ UNCHANGED <<fn, senderVars, sourceChain, flowVars, retries>>

waitForCctpAttestation ==
  WC_Poll \/ PollerSleep("waitForCctpAttestation")

(***************************************************************************)
(* The cross-chain flows.  One step is one leg: the awaits inside a leg    *)
(* run one after the other and nothing else runs between them.  A leg      *)
(* ends "ok" (done on its chain or service), "failedOnChain" (the          *)
(* executor returned although the transaction failed on chain), "expired"  *)
(* (solanaToAptosFlow: caught, the leg is tried again) or "threw".         *)
(***************************************************************************)
\* what no flow reads or writes
nonFlow == <<fn, serializedTx, lastValidBlockHeight, signature, lastError,
             retries, pending, aborted, resender, broadcasts, landed, seen,
             sourceChain, lookups, pendings, faults, domain, redeemRes>>

claimVars == <<posts, limited, bodies, claimRes>>

txVars == <<attempt, fresh, submitted, onChain>>

Leg(name, o) == legs' = Append(legs, [leg |-> name, outcome |-> o])

\* an awaited call that rejects ends the flow: no flow but
\* solanaToAptosFlow has a try/catch
FlowThrow(name) ==
  /\ Leg(name, "threw")
  /\ pc' = "done"
  /\ result' = Err(<<name>>)

FlowGoto(next) ==
  /\ pc' = next
  /\ result' = (IF next = "done" THEN Ok(NoSig) ELSE result)

\* tx.wait() and waitForTransaction({checkSuccess: true}) reject when the
\* transaction failed
Settled == {"ok", "threw"}

\* solana-evm.ts executeSolanaTx: the value of confirmTransaction, which
\* carries the transaction error, is not read
ExecuteSolanaTx == {"ok", "failedOnChain", "threw"}

\* evm-solana.ts sendSolanaTransaction: neither status.value.err nor the
\* value of confirmTransaction is read
ES_Outcomes == {"ok", "failedOnChain", "threw"}

\* const quote = quoteRes.data.data[0]
FlowQuote(f, next) ==
  /\ fn = f /\ pc = "quote"
  /\ \/ \E q \in Quotes :
          /\ quote' = q
          /\ Leg("quote", "ok")
          /\ FlowGoto(next)
     \/ FlowThrow("quote") /\ UNCHANGED quote
  /\ UNCHANGED <<nonFlow, claimVars, txVars, payload, attestation>>

\* a leg that sends a transaction, or asks the API for one
FlowStep(f, at, name, outcomes, next) ==
  /\ fn = f /\ pc = at
  /\ \E o \in outcomes :
       /\ IF o = "threw"
          THEN FlowThrow(name)
          ELSE Leg(name, o) /\ FlowGoto(next)
  /\ UNCHANGED <<nonFlow, claimVars, txVars, payload, attestation, quote>>

\* the domain segment of the URL the poller of a flow fetches: the map of
\* the flow's file applied to the chain the flow passes
FlowDomain(f) ==
  LET \* evm-solana.ts lines 260-268, evm-aptos.ts lines 258-266
      noSui == (NetworkId.ethereum :> 0) @@ (NetworkId.Avalanche :> 1)
                 @@ (NetworkId.Arbitrum :> 3) @@ (NetworkId.solana :> 5)
                 @@ (NetworkId.base :> 6) @@ (NetworkId.polygon :> 7)
                 @@ (NetworkId.aptos :> 9)
      \* aptos-evm.ts lines 310-319, redeem-solana-aptos.ts lines 154-163
      all == noSui @@ (NetworkId.sui :> 8)
  IN  CASE f = "solanaToAvalancheSwap" ->
             UrlDomain(CHAIN_TO_CCTP_ID, NetworkId.solana)
        [] f = "polygonToSolanaSwap" -> UrlDomain(noSui, NetworkId.polygon)
        [] f = "avalancheToSolanaSwap" ->
             UrlDomain(ES_CHAIN_TO_CCTP_ID, NetworkId.Avalanche)
        [] f = "aptosToPolygonSwap" -> UrlDomain(all, NetworkId.aptos)
        [] f = "polygonToAptosSwap" -> UrlDomain(noSui, NetworkId.polygon)
        [] f = "evmToAptosSwap" ->
             UrlDomain(P14_CHAIN_TO_CCTP_ID, NetworkId.Avalanche)
        [] f = "solanaToAptosFlow" -> "5"
        [] f = "redeemAptosToEvm" -> UrlDomain(CCTP_CHAIN_MAP, NetworkId.aptos)
        [] f = "redeemSolanaToAptos" -> UrlDomain(all, NetworkId.solana)
        [] f = "part_009_redeemSolanaToAptos" ->
             UrlDomain(P9_CCTP_CHAIN_MAP, NetworkId.solana)
        [] f = "redeemEvmToAptos" ->
             UrlDomain(P12_CCTP_CHAIN_MAP, NetworkId.ethereum)

\* const { messageBytes, attestationSignature } = await waitForAttestation()
FlowAttestation(f, outcomes, next) ==
  /\ fn = f /\ pc = "attestation"
  /\ domain' = FlowDomain(f)
  /\ \/ \E p \in Payloads :
          /\ payload' = p
          /\ attestation' = AttestationOf(p)
          /\ Leg("attestation", "ok")
          /\ FlowGoto(next)
     \/ /\ "threw" \in outcomes
        /\ FlowThrow("attestation")
        /\ UNCHANGED <<payload, attestation>>
  /\ UNCHANGED <<fn, serializedTx, lastValidBlockHeight, signature, lastError,
                 retries, pending, aborted, resender, broadcasts, landed, seen,
                 sourceChain, lookups, pendings, faults, redeemRes, claimVars,
                 txVars, quote>>

\* faulty variant: the two fields change places
ClaimBody_Swapped(a) ==
  [messageBytes |-> a.attestationSignature,
   attestationSignature |-> a.messageBytes]

\* { quote, targetAddress, messageBytes, attestationSignature }
ClaimBody(a) ==
  [messageBytes |-> a.messageBytes,
   attestationSignature |-> a.attestationSignature]

\* one POST to /v1/claim is started
Post ==
  /\ posts' = (IF posts <= MaxLimited THEN posts + 1 ELSE posts)
  /\ bodies' = bodies \cup {ClaimBody(attestation)}

\* const claimRes = await axios.post(`${KANA_API_URL}/v1/claim`, ...):
\* every answer that is not 2xx rejects
FlowClaimOnce(f, next) ==
  /\ fn = f /\ pc = "claim"
  /\ Post
  /\ \/ Leg("claim", "ok") /\ FlowGoto(next) /\ claimRes' = posts'
     \/ FlowThrow("claim") /\ UNCHANGED claimRes
  /\ UNCHANGED <<nonFlow, limited, txVars, payload, attestation, quote>>

\* what a rejected POST carries in err.response.status; 0: no response
ClaimErrors == {429, 500, 0}

\* faulty variant: every rejection is retried
CR_ShouldRetry_Always(status) == TRUE

\* evm-aptos.ts line 246: if (err?.response?.status === 429)
CR_ShouldRetry(status) == status = 429

\* evm-aptos.ts lines 242-254, part_014 lines 216-236: callClaimWithRetry
\* up to the sleep
CR_Post(f, next) ==
  /\ fn = f /\ pc = "claim"
  /\ Post
  /\ \/ /\ Leg("claim", "ok") /\ FlowGoto(next)
        /\ claimRes' = posts'
        /\ UNCHANGED limited
     \/ \E status \in ClaimErrors :
          /\ status = 429 => limited < MaxLimited
          /\ limited' = (IF status = 429 THEN limited + 1 ELSE limited)
          /\ IF CR_ShouldRetry(status)
             THEN pc' = "claimBackoff" /\ UNCHANGED <<result, legs>>
             ELSE FlowThrow("claim")
          /\ UNCHANGED claimRes
  /\ UNCHANGED <<nonFlow, txVars, payload, attestation, quote>>

\* await new Promise((r) => setTimeout(r, retryAfter * 1000)); continue
CR_Sleep(f) ==
  /\ fn = f /\ pc = "claimBackoff"
  /\ pc' = "claim"
  /\ UNCHANGED <<nonFlow, claimVars, txVars, payload, attestation, quote,
                 legs, result>>

\* if (quote.targetSwapRoute)
AfterMint == IF quote.targetSwapRoute THEN "targetSwap" ELSE "done"

\* solana-evm.ts lines 63-137: no target swap
solanaToAvalancheSwap ==
  \/ FlowQuote("solanaToAvalancheSwap", "transfer")
  \/ FlowStep("solanaToAvalancheSwap", "transfer", "transfer", Settled, "burn")
  \/ FlowStep("solanaToAvalancheSwap", "burn", "burn", ExecuteSolanaTx,
              "attestation")
  \/ FlowAttestation("solanaToAvalancheSwap", {"ok", "threw"}, "claim")
  \/ FlowClaimOnce("solanaToAvalancheSwap", "mint")
  \/ FlowStep("solanaToAvalancheSwap", "mint", "mint", Settled, "done")

\* evm-solana.ts lines 361-449: the approve transaction is sent when the
\* instruction has an approveIX; its waitForAttestation has no try/catch
avalancheToSolanaSwap ==
  \/ FlowQuote("avalancheToSolanaSwap", "transfer")
  \/ FlowStep("avalancheToSolanaSwap", "transfer", "transfer", Settled,
              "approve")
  \/ FlowStep("avalancheToSolanaSwap", "transfer", "transfer", Settled, "burn")
  \/ FlowStep("avalancheToSolanaSwap", "approve", "approve", Settled, "burn")
  \/ FlowStep("avalancheToSolanaSwap", "burn", "burn", Settled, "attestation")
  \/ FlowAttestation("avalancheToSolanaSwap", {"ok", "threw"}, "claim")
  \/ FlowClaimOnce("avalancheToSolanaSwap", "mint")
  \/ FlowStep("avalancheToSolanaSwap", "mint", "mint", ExecuteSolanaTx, "done")

\* evm-solana.ts lines 66-157: its waitForAttestation swallows every error;
\* mint and target swap go through sendSolanaTransaction
polygonToSolanaSwap ==
  \/ FlowQuote("polygonToSolanaSwap", "transfer")
  \/ FlowStep("polygonToSolanaSwap", "transfer", "transfer", Settled, "burn")
  \/ FlowStep("polygonToSolanaSwap", "burn", "burn", Settled, "attestation")
  \/ FlowAttestation("polygonToSolanaSwap", {"ok"}, "claim")
  \/ FlowClaimOnce("polygonToSolanaSwap", "mint")
  \/ FlowStep("polygonToSolanaSwap", "mint", "mint", ES_Outcomes, AfterMint)
  \/ FlowStep("polygonToSolanaSwap", "targetSwap", "targetSwap", ES_Outcomes,
              "done")

\* transferRes.data.data: which payloads the API put in the instruction
Instructions == [swapPayload : BOOLEAN, bridgePayload : BOOLEAN]

\* aptos-evm.ts lines 260-306: how executeAptosInstruction can end.  It
\* returns lastTx: the hash of the bridge transaction ("ok"), the hash of
\* the swap transaction when there is no bridgePayload ("swapOnly"), or the
\* initial "" when there is neither ("empty")
ExecuteAptosInstruction(instruction) ==
  IF instruction.bridgePayload THEN {"ok", "threw"}
  ELSE IF instruction.swapPayload THEN {"swapOnly", "threw"}
  ELSE {"empty"}

\* aptos-evm.ts lines 136-248
aptosToPolygonSwap ==
  \/ FlowQuote("aptosToPolygonSwap", "transfer")
  \/ FlowStep("aptosToPolygonSwap", "transfer", "transfer", Settled, "burn")
  \/ \E instruction \in Instructions :
       FlowStep("aptosToPolygonSwap", "burn", "burn",
                ExecuteAptosInstruction(instruction), "attestation")
  \/ FlowAttestation("aptosToPolygonSwap", {"ok", "threw"}, "claim")
  \/ FlowClaimOnce("aptosToPolygonSwap", "mint")
  \/ FlowStep("aptosToPolygonSwap", "mint", "mint", Settled, AfterMint)
  \/ FlowStep("aptosToPolygonSwap", "targetSwap", "targetSwap", Settled,
              "done")

\* evm-aptos.ts lines 66-163: its waitForAttestation swallows every error;
\* the claim goes through callClaimWithRetry
polygonToAptosSwap ==
  \/ FlowQuote("polygonToAptosSwap", "transfer")
  \/ FlowStep("polygonToAptosSwap", "transfer", "transfer", Settled, "burn")
  \/ FlowStep("polygonToAptosSwap", "burn", "burn", Settled, "attestation")
  \/ FlowAttestation("polygonToAptosSwap", {"ok"}, "claim")
  \/ CR_Post("polygonToAptosSwap", "mint")
  \/ CR_Sleep("polygonToAptosSwap")
  \/ FlowStep("polygonToAptosSwap", "mint", "mint", Settled, AfterMint)
  \/ FlowStep("polygonToAptosSwap", "targetSwap", "targetSwap", Settled,
              "done")

\* part_014 lines 70-138: no target swap
evmToAptosSwap ==
  \/ FlowQuote("evmToAptosSwap", "transfer")
  \/ FlowStep("evmToAptosSwap", "transfer", "transfer", Settled, "burn")
  \/ FlowStep("evmToAptosSwap", "burn", "burn", Settled, "attestation")
  \/ FlowAttestation("evmToAptosSwap", {"ok", "threw"}, "claim")
  \/ CR_Post("evmToAptosSwap", "mint")
  \/ CR_Sleep("evmToAptosSwap")
  \/ FlowStep("evmToAptosSwap", "mint", "mint", Settled, "done")

(***************************************************************************)
(* solana-aptos.ts solanaToAptosFlow: the source swap and the bridge are   *)
(* retry loops of five attempts around sendSolanaTransaction               *)
(***************************************************************************)
(* The redeem scripts: attestation, POST /v1/redeem, target transaction.   *)
(* Everything after the attestation is inside one try/catch that logs.     *)
(***************************************************************************)
\* faulty variant: data is not looked at
RAE_Valid_ToOnly ==
  {r \in RedeemAnswers : r.status = 200 /\ r.payload /\ r.to}

\* redeem-aptos-evm.ts lines 84-99: axios rejects an answer that is not
\* 2xx; if (!txPayload) throw; if (!txPayload.to || !txPayload.data) throw
RAE_Valid ==
  {r \in RedeemAnswers : r.status = 200 /\ r.payload /\ r.to /\ r.data}

\* redeem-solana-aptos.ts lines 80-87:
\* if (!aptosPayload || !aptosPayload.function) throw
RSA_Valid ==
  {r \in RedeemAnswers : r.status = 200 /\ r.payload /\ r.function}

\* the try block: the request, the test of the payload, the transaction;
\* the catch logs, and the script ends
Redeem(f, valid) ==
  /\ fn = f
  /\ \/ /\ pc = "redeem"
        /\ \E r \in RedeemAnswers :
             /\ redeemRes' = r
             /\ IF r \in valid
                THEN /\ Leg("redeem", "ok")
                     /\ pc' = "submit"
                     /\ UNCHANGED result
                ELSE /\ Leg("redeem", "threw")
                     /\ pc' = "done"
                     /\ result' = Ok(NoSig)
     \/ /\ pc = "submit"
        /\ \E o \in Settled : Leg("submit", o)
        /\ pc' = "done"
        /\ result' = Ok(NoSig)
        /\ UNCHANGED redeemRes
  /\ UNCHANGED <<fn, senderVars, retries, seen, pollerVars, attestation,
                 quote, claimVars, fresh, submitted, onChain>>

\* redeem-aptos-evm.ts lines 59-115: its waitForAttestation gives up after
\* 120 retries
redeemAptosToEvm ==
  \/ FlowAttestation("redeemAptosToEvm", {"ok", "threw"}, "redeem")
  \/ Redeem("redeemAptosToEvm", RAE_Valid)

\* redeem-solana-aptos.ts lines 53-110: its waitForAttestation never throws
redeemSolanaToAptos ==
  \/ FlowAttestation("redeemSolanaToAptos", {"ok"}, "redeem")
  \/ Redeem("redeemSolanaToAptos", RSA_Valid)

\* part_009 lines 48-107: the payload is only tested for presence; its
\* waitForAttestation gives up after 120 retries
P9_redeemSolanaToAptos ==
  \/ FlowAttestation("part_009_redeemSolanaToAptos", {"ok", "threw"}, "redeem")
  \/ Redeem("part_009_redeemSolanaToAptos",
            {r \in RedeemAnswers : r.status = 200 /\ r.payload})

\* part_012 lines 53-110: the same script for a burn on Ethereum
redeemEvmToAptos ==
  \/ FlowAttestation("redeemEvmToAptos", {"ok", "threw"}, "redeem")
  \/ Redeem("redeemEvmToAptos",
            {r \in RedeemAnswers : r.status = 200 /\ r.payload})

(***************************************************************************)
(* The EVM executors: approve, then the swap or the burn.  swapIX is       *)
(* taken to be present.                                                    *)
(***************************************************************************)
\* viem: waitForTransactionReceipt resolves with the receipt of a reverted
\* transaction (status "reverted"), and the executor does not read status
ViemReceipt == {"ok", "failedOnChain", "threw"}

\* same-chain/evm/ethers/swap.ts lines 45-86: tx.wait() rejects for a
\* reverted transaction
ethers_executeEVMInstruction ==
  \/ FlowStep("ethers_executeEVMInstruction", "approve", "approve", Settled,
              "transfer")
  \/ FlowStep("ethers_executeEVMInstruction", "transfer", "swap", Settled,
              "done")

\* same-chain/evm/viem/swap-exactout.ts lines 67-141
viem_executeEVMInstruction ==
  \/ FlowStep("viem_executeEVMInstruction", "approve", "approve",
              ViemReceipt, "transfer")
  \/ FlowStep("viem_executeEVMInstruction", "transfer", "swap", ViemReceipt,
              "done")

\* evm-solana.ts lines 165-198
executeEvmInstruction ==
  \/ FlowStep("executeEvmInstruction", "approve", "approve", Settled,
              "transfer")
  \/ FlowStep("executeEvmInstruction", "transfer", "transfer", Settled,
              "done")

(***************************************************************************)
S2A_MAX_ATTEMPTS == 5

\* what sendSolanaTransaction of solana-aptos.ts returns or throws
S2A_SendResults == {Ok("sigA"), Err(<<"Expired">>), Err(SA_TimeoutMsg)}

\* what a rejected axios.post carries in e.message
S2A_AxiosError == <<"Request failed with status code 500">>

\* faulty variant: after Expired the transaction in hand is sent again
S2A_Catch_Resend(msg, name, top, send) ==
  IF Includes(msg, <<"Expired">>) \/ Includes(msg, <<"block height">>)
  THEN /\ Leg(name, "expired")
       /\ pc' = send
       /\ UNCHANGED result
  ELSE FlowThrow(name)

\* lines 125-132 and 170-176: Expired goes round the loop, to the fetch of
\* a new transaction; every other error is rethrown
S2A_Catch(msg, name, top, send) ==
  IF Includes(msg, <<"Expired">>) \/ Includes(msg, <<"block height">>)
  THEN /\ Leg(name, "expired")
       /\ pc' = top
       /\ UNCHANGED result
  ELSE FlowThrow(name)

S2A_Quote ==
  /\ fn = "solanaToAptosFlow" /\ pc = "quote"
  /\ \/ \E q \in Quotes :
          /\ quote' = q
          /\ Leg("quote", "ok")
          /\ pc' = (IF q.sourceSwapRoute THEN "swapTop" ELSE "bridgeTop")
          /\ UNCHANGED result
     \/ FlowThrow("quote") /\ UNCHANGED quote
  /\ UNCHANGED <<nonFlow, claimVars, txVars, payload, attestation>>

\* faulty variant: the loop runs while attempts <= 5
S2A_Top_OneMore(at, name, fetch, msg) ==
  /\ fn = "solanaToAptosFlow" /\ pc = at
  /\ IF attempt <= S2A_MAX_ATTEMPTS
     THEN /\ attempt' = attempt + 1
          /\ pc' = fetch
          /\ UNCHANGED <<result, legs>>
     ELSE /\ Leg(name, "threw")
          /\ pc' = "done"
          /\ result' = Err(msg)
          /\ UNCHANGED attempt
  /\ UNCHANGED <<nonFlow, claimVars, fresh, submitted, onChain, payload,
                 attestation, quote>>

\* while (!success && attempts < 5) { attempts++; ... } and the throw after
\* the loop
S2A_Top(at, name, fetch, msg) ==
  /\ fn = "solanaToAptosFlow" /\ pc = at
  /\ IF attempt < S2A_MAX_ATTEMPTS
     THEN /\ attempt' = attempt + 1
          /\ pc' = fetch
          /\ UNCHANGED <<result, legs>>
     ELSE /\ Leg(name, "threw")
          /\ pc' = "done"
          /\ result' = Err(msg)
          /\ UNCHANGED attempt
  /\ UNCHANGED <<nonFlow, claimVars, fresh, submitted, onChain, payload,
                 attestation, quote>>

\* A. the API builds a new transaction
S2A_Fetch(at, name, top, send) ==
  /\ fn = "solanaToAptosFlow" /\ pc = at
  /\ \/ /\ fresh' = fresh + 1
        /\ pc' = send
        /\ UNCHANGED <<result, legs>>
     \/ /\ S2A_Catch(S2A_AxiosError, name, top, send)
        /\ UNCHANGED fresh
  /\ UNCHANGED <<nonFlow, claimVars, attempt, submitted, onChain, payload,
                 attestation, quote>>

\* B. sendSolanaTransaction with the transaction in hand.  It returns
\* only for a status confirmed or finalized; it throws Expired as soon as
\* isBlockhashValid answers false (lines 273-277), also for a
\* transaction the chain included after one of the broadcasts
S2A_Send(at, name, top, next) ==
  /\ fn = "solanaToAptosFlow" /\ pc = at
  /\ submitted' = Append(submitted, fresh)
  /\ \E r \in S2A_SendResults :
       IF r.kind = "ok"
       THEN /\ Leg(name, "ok")
            /\ pc' = next
            /\ attempt' = 0
            /\ onChain' = onChain \cup {[leg |-> name, tx |-> fresh]}
            /\ UNCHANGED result
       ELSE /\ S2A_Catch(r.msg, name, top, at)
            /\ \E included \in BOOLEAN :
                 onChain' = (IF included
                             THEN onChain \cup {[leg |-> name, tx |-> fresh]}
                             ELSE onChain)
            /\ UNCHANGED attempt
  /\ UNCHANGED <<nonFlow, claimVars, fresh, payload, attestation, quote>>

\* line 123: await new Promise(r => setTimeout(r, 5000))
S2A_SwapSync ==
  /\ fn = "solanaToAptosFlow" /\ pc = "swapSync"
  /\ pc' = "bridgeTop"
  /\ UNCHANGED <<nonFlow, claimVars, txVars, payload, attestation, quote,
                 legs, result>>

\* solana-aptos.ts lines 68-228
solanaToAptosFlow ==
  \/ S2A_Quote
  \/ S2A_Top("swapTop", "sourceSwap", "swapFetch",
             <<"Swap failed after 5 attempts due to congestion.">>)
  \/ S2A_Fetch("swapFetch", "sourceSwap", "swapTop", "swapSend")
  \/ S2A_Send("swapSend", "sourceSwap", "swapTop", "swapSync")
  \/ S2A_SwapSync
  \/ S2A_Top("bridgeTop", "burn", "bridgeFetch",
             <<"Bridge failed after retries.">>)
  \/ S2A_Fetch("bridgeFetch", "burn", "bridgeTop", "bridgeSend")
  \/ S2A_Send("bridgeSend", "burn", "bridgeTop", "attestation")
  \/ FlowAttestation("solanaToAptosFlow", {"ok"}, "claim")
  \/ FlowClaimOnce("solanaToAptosFlow", "mint")
  \/ FlowStep("solanaToAptosFlow", "mint", "mint", Settled, AfterMint)
  \/ FlowStep("solanaToAptosFlow", "targetSwap", "targetSwap", Settled,
              "done")

Next ==
  \/ ChainLands
  \/ KitSend1 \/ KitPoll \/ KitSleep \/ KitReturn
  \/ KitResenderWake \/ KitResenderSent
  \/ W4Send1 \/ W4Confirm \/ W4AfterAwait \/ W4GetTx \/ W4SleepTx
  \/ W4Return \/ W4Throw \/ W4ResenderWake \/ W4ResenderSent
  \/ SA_Top \/ SA_Status \/ SA_Sleep \/ SA_Send \/ SA_Validity
  \/ P3_Top \/ P3_Status \/ P3_Sleep \/ P3_Idle \/ P3_Send \/ P3_Confirm
  \/ ES_Top \/ ES_Status \/ ES_Sleep \/ ES_Send \/ ES_Confirm
  \/ P5_Top \/ P5_Status \/ P5_Sleep \/ P5_Send \/ P5_Confirm
  \/ P11_Top \/ P11_Status \/ P11_Sleep \/ P11_Send \/ P11_Confirm
  \/ fetchAttestation \/ RA_waitForAttestation \/ P12_waitForAttestation
  \/ P11_waitForAttestation
  \/ redeemAptosToEvm \/ redeemSolanaToAptos
  \/ P9_redeemSolanaToAptos \/ redeemEvmToAptos \/ avalancheToSolanaSwap
  \/ ethers_executeEVMInstruction \/ viem_executeEVMInstruction
  \/ executeEvmInstruction
  \/ SE_waitForAttestation \/ P6_waitForAttestation \/ waitForCctpAttestation
  \/ solanaToAvalancheSwap \/ polygonToSolanaSwap \/ aptosToPolygonSwap
  \/ polygonToAptosSwap \/ evmToAptosSwap \/ solanaToAptosFlow

Spec == Init /\ [][Next]_vars

\* the steps of the foreground async function: at most one is enabled
Foreground ==
  \/ KitSend1 \/ KitPoll \/ KitSleep \/ KitReturn
  \/ W4Send1 \/ W4Confirm \/ W4AfterAwait \/ W4GetTx \/ W4SleepTx
  \/ W4Return \/ W4Throw
  \/ SA_Top \/ SA_Status \/ SA_Sleep \/ SA_Send \/ SA_Validity
  \/ P3_Top \/ P3_Status \/ P3_Sleep \/ P3_Idle \/ P3_Send \/ P3_Confirm
  \/ ES_Top \/ ES_Status \/ ES_Sleep \/ ES_Send \/ ES_Confirm
  \/ P5_Top \/ P5_Status \/ P5_Sleep \/ P5_Send \/ P5_Confirm
  \/ P11_Top \/ P11_Status \/ P11_Sleep \/ P11_Send \/ P11_Confirm
  \/ fetchAttestation \/ RA_waitForAttestation \/ P12_waitForAttestation
  \/ P11_waitForAttestation
  \/ redeemAptosToEvm \/ redeemSolanaToAptos
  \/ P9_redeemSolanaToAptos \/ redeemEvmToAptos \/ avalancheToSolanaSwap
  \/ ethers_executeEVMInstruction \/ viem_executeEVMInstruction
  \/ executeEvmInstruction
  \/ SE_waitForAttestation \/ P6_waitForAttestation \/ waitForCctpAttestation
  \/ solanaToAvalancheSwap \/ polygonToSolanaSwap \/ aptosToPolygonSwap
  \/ polygonToAptosSwap \/ evmToAptosSwap \/ solanaToAptosFlow

\* the steps of the background resender
Background ==
  KitResenderWake \/ KitResenderSent \/ W4ResenderWake \/ W4ResenderSent

\* the event loop runs every continuation whose timer or RPC call has
\* settled; the chain owes the transaction nothing
FairSpec == Init /\ [][Next]_vars /\ WF_vars(Foreground) /\ WF_vars(Background)

(***************************************************************************)
(* Properties                                                              *)
(***************************************************************************)
Returned == pc = "done"

\* this step starts no broadcast call: the counter stands still and the
\* resender does not pass from its timer into a send
NoBroadcastStarted ==
  /\ broadcasts' = broadcasts
  /\ ~(resender = "sleeping" /\ resender' = "sending")

\* C1: swapSolanaKit.ts sendAndConfirmTransaction: when the first broadcast
\* succeeded and a status check reported confirmed/finalized, the call
\* returns the signature the first broadcast produced, the resender has
\* terminated when the call returns, and no broadcast call is started after
\* the return.
C1_ConfirmedReturnsFirstSignature ==
  /\ [](fn = "swapSolanaKit" /\ Returned /\ "confirmed" \in seen
          => result = Ok(SigOf(serializedTx)) /\ resender = "finished")
  /\ [][(fn = "swapSolanaKit" /\ Returned /\ "confirmed" \in seen)
          => NoBroadcastStarted]_vars

C1_Witness ==
  /\ fn = "swapSolanaKit" /\ Returned /\ "confirmed" \in seen
  /\ result = Ok(SigOf(serializedTx))
  /\ broadcasts >= 2

\* C2: sendAndConfirmTransaction and transactionSenderAndConfirmationWaiter:
\* on every exit after the resender was started, by return or by throw, the
\* abort signal is set and the resender has terminated, and no re-broadcast
\* is started once the call has completed.
C2_EveryExitStopsResender ==
  /\ [](fn \in {"swapSolanaKit", "part_004"} /\ Returned /\ resender # "notStarted"
          => aborted /\ resender = "finished")
  /\ [][(fn \in {"swapSolanaKit", "part_004"} /\ Returned)
          => NoBroadcastStarted]_vars

C2_Witness ==
  /\ fn = "part_004" /\ Returned /\ result.kind = "err"
  /\ aborted /\ resender = "finished"
  /\ broadcasts >= 2

\* C3: once the abort signal is set, the resender (of either helper) starts
\* no new sendTransaction/sendRawTransaction call.
C3_NoBroadcastAfterAbort ==
  [][(fn \in {"swapSolanaKit", "part_004"} /\ aborted)
       => NoBroadcastStarted]_vars

\* C4: solana-aptos.ts sendSolanaTransaction: once the blockhash check has
\* reported the blockhash invalid, or a status lookup has reported a
\* BlockHeightExceeded error without a confirmed/finalized status, the call
\* has failed with 'Expired' (so never with the timeout error).
C4_ExpiredNotTimeout ==
  fn = "solana_aptos" /\ "expiry" \in seen
    => Returned /\ result = Err(<<"Expired">>)

C4_Witness ==
  /\ fn = "solana_aptos" /\ "expiry" \in seen
  /\ Returned /\ result = Err(<<"Expired">>)
  /\ attempt > 1

\* C5: every run of sendAndConfirmTransaction (swapSolanaKit.ts) ends: once
\* the first broadcast has succeeded the call eventually returns or throws,
\* also when the status lookup never reports a status.
C5_KitTerminates ==
  (fn = "swapSolanaKit" /\ pc = "poll") ~> Returned

\* C6: sendSolanaTransaction (part_003, evm-solana.ts): once a status lookup
\* has reported the slippage code 0x1771 (Custom 6001), the call has failed
\* with the slippage error.
C6_SlippageFailsFast ==
  fn \in {"part_003", "evm_solana"} /\ "slippage" \in seen
    => /\ Returned
       /\ result = Err(IF fn = "part_003" THEN P3_SlippageMsg
                       ELSE <<"Slippage Error">>)

\* C7: sendSolanaTransaction (solana-aptos.ts, part_003): once a status
\* lookup has reported a status carrying a non-null error, the call has
\* stopped with a failure.
C7_StatusErrorStops ==
  fn \in {"solana_aptos", "part_003"} /\ "statusErr" \in seen
    => Returned /\ result.kind = "err"

\* C8: sendSolanaTransaction (evm-solana.ts) and the resender of
\* sendAndConfirmTransaction: the step in which a re-broadcast is rejected
\* as already processed neither fails the call nor drops the identifier
\* the call is to return.
C8_RebroadcastIsNoOp ==
  [][(fn \in {"evm_solana", "swapSolanaKit"}
        /\ "dupRejected" \notin seen /\ "dupRejected" \in seen')
       => (signature' = signature /\ result'.kind # "err")]_vars

\* C9: sendSolanaTransaction (evm-solana.ts): when every broadcast was
\* accepted, no confirmation wait resolved and every status lookup returned
\* a status that is not confirmed, the call fails with 'Failed to send
\* transaction after 5 attempts' after exactly 5 broadcast calls.
C9_BudgetExhausted ==
  fn = "evm_solana" /\ Returned
     /\ seen \cap {"confirmed", "statusThrew", "sendThrew"} = {}
    => /\ result = Err(<<"Failed to send transaction after ", "5", " attempts">>)
       /\ broadcasts = 5

C9_Witness ==
  /\ fn = "evm_solana" /\ Returned
  /\ seen \cap {"confirmed", "statusThrew", "sendThrew"} = {}
  /\ attempt = 5 /\ broadcasts = 5

\* C10: sendSolanaTransaction (part_003) returns a signature only if a
\* status lookup or a confirmation wait reported it confirmed/finalized.
C10_SignatureOnlyIfConfirmed ==
  fn = "part_003" /\ result.kind = "ok" => "confirmed" \in seen

\* C11: sendAndConfirmTransaction (swapSolanaKit.ts) and sendSolanaTransaction
\* (part_003): the step in which a status lookup throws a network error
\* does not end or abort the call.
C11_StatusErrorTolerated ==
  [][(fn \in {"swapSolanaKit", "part_003"}
        /\ "statusThrew" \notin seen /\ "statusThrew" \in seen')
       => (pc' # "done" /\ ~aborted' /\ pending'.kind # "err")]_vars

\* the errors the three copies throw from their catch blocks
EarlyAbortMsgs ==
  {<<"Slippage Error">>, <<"Insufficient Funds">>,
   <<"Slippage: Out Amount less than minimum">>,
   <<"Insufficient funds (", "0x1", ").">>,
   <<"Transaction failed (", "0x1", "). Check if already redeemed.">>}

\* C12 as stated: sendSolanaTransaction (evm-solana.ts, part_005, part_011):
\* unless a broadcast threw the slippage code 0x1771, the call fails only
\* when the attempt budget is used up, never from its catch block.
C12_OnlySlippageAborts ==
  fn \in {"evm_solana", "part_005", "part_011"} /\ Returned
     /\ result.kind = "err" /\ "sendThrewSlippage" \notin seen
    => attempt = 5 /\ result.msg \notin EarlyAbortMsgs

\* C12 amended: unless a broadcast threw an error whose message contains
\* '0x1' (the slippage code 0x1771 included), the call fails only when the
\* attempt budget is used up, never from its catch block.
C12_Only0x1Aborts ==
  fn \in {"evm_solana", "part_005", "part_011"} /\ Returned
     /\ result.kind = "err" /\ "sendThrew0x1" \notin seen
    => attempt = 5 /\ result.msg \notin EarlyAbortMsgs

C12_Witness ==
  /\ fn = "evm_solana" /\ Returned /\ result = Err(ES_FailedMsg)
  /\ "sendThrew" \in seen /\ "sendThrew0x1" \notin seen
  /\ attempt = 5 /\ broadcasts = 5

\* C20: sendAndConfirmTransaction (swapSolanaKit.ts) and sendSolanaTransaction
\* (evm-solana.ts) return a signature only if no status and no confirmation
\* result reported for it carried a non-null error.
C20_SuccessOnlyWithoutError ==
  fn \in {"swapSolanaKit", "evm_solana"} /\ Returned /\ result.kind = "ok"
    => seen \cap {"statusErr", "confirmErr"} = {}

\* C13: fetchAttestation (part_006) and waitForAttestation
\* (redeem-aptos-evm.ts): when the attestation API answered PENDING N times,
\* N below the poll budget, and then with a ready message, and gave no other
\* answer, the poller has made exactly N+1 lookups and has returned the
\* message as messageBytes and the attestation as attestationSignature.
C13_ReadyAfterNPending ==
  /\ fn = "fetchAttestation" /\ Returned /\ faults = 0
       /\ pendings < FA_maxRetries
     => /\ result.kind = "ok"
        /\ lookups = pendings + 1
        /\ attestation = [messageBytes |-> payload.message,
                          attestationSignature |-> payload.attestation]
  /\ fn = "redeem_aptos_evm" /\ Returned /\ faults = 0
       /\ pendings < RA_maxRetries
     => /\ result.kind = "ok"
        /\ lookups = pendings + 1
        /\ attestation = [messageBytes |-> payload.message,
                          attestationSignature |-> payload.attestation]

\* the last poll of the budget is the one that is answered with the message
C13_Witness ==
  /\ fn = "fetchAttestation" /\ Returned /\ faults = 0
  /\ pendings = FA_maxRetries - 1
  /\ lookups = FA_maxRetries
  /\ payload \in Payloads
  /\ attestation.messageBytes = payload.message

\* C14: every attestation poller ends: waitForAttestation (solana-evm.ts,
\* part_006), waitForCctpAttestation (solana-aptos.ts) and fetchAttestation
\* (part_006) eventually return or throw, also when the attestation API
\* answers every lookup with PENDING.
C14_PollersTerminate ==
  (fn \in {"solana_evm", "part_006", "waitForCctpAttestation",
           "fetchAttestation"}) ~> (Returned \/ faults > 0)

\* C15: callClaimWithRetry (evm-aptos.ts, part_014): only a 429 answer is
\* retried, with the same body; every other rejection ends the call at
\* once.  So while the call runs every POST so far was answered 429, once it
\* is over the number of POSTs is the number of 429 answers plus one, and
\* the response it returns is the answer to the last POST, the first that
\* was not 429.
C15_ClaimRetriesOn429Only ==
  fn \in {"polygonToAptosSwap", "evmToAptosSwap"} =>
    /\ pc \in {"claim", "claimBackoff"} => posts = limited
    /\ Cardinality(bodies) <= 1
    /\ \A i \in 1..Len(legs) :
         legs[i].leg = "claim" =>
           /\ posts = limited + 1
           /\ legs[i].outcome = "ok" => claimRes = limited + 1
           /\ legs[i].outcome = "threw" => Returned /\ result.kind = "err"

\* two 429 answers, then the claim is accepted
C15_Witness ==
  /\ fn = "evmToAptosSwap"
  /\ limited = 2 /\ posts = 3 /\ claimRes = 3
  /\ Cardinality(bodies) = 1

\* C16: in solanaToAvalancheSwap, polygonToSolanaSwap and aptosToPolygonSwap
\* the legs run in the order burn, attestation, claim, mint, target swap,
\* and a leg is started only when every leg before it ended successfully.
C16_LegsInOrder ==
  fn \in {"solanaToAvalancheSwap", "polygonToSolanaSwap", "aptosToPolygonSwap"}
    => \A i \in 1..Len(legs) : \A j \in 1..Len(legs) :
         i < j =>
           /\ legs[i].outcome = "ok"
           /\ <<legs[i].leg, legs[j].leg>> \in
                {<<"quote", "transfer">>, <<"quote", "burn">>,
                 <<"quote", "attestation">>, <<"quote", "claim">>,
                 <<"quote", "mint">>, <<"quote", "targetSwap">>,
                 <<"transfer", "burn">>, <<"transfer", "attestation">>,
                 <<"transfer", "claim">>, <<"transfer", "mint">>,
                 <<"transfer", "targetSwap">>,
                 <<"burn", "attestation">>, <<"burn", "claim">>,
                 <<"burn", "mint">>, <<"burn", "targetSwap">>,
                 <<"attestation", "claim">>, <<"attestation", "mint">>,
                 <<"attestation", "targetSwap">>,
                 <<"claim", "mint">>, <<"claim", "targetSwap">>,
                 <<"mint", "targetSwap">>}

\* C17: solanaToAptosFlow, source swap and bridge: no transaction is handed
\* to sendSolanaTransaction twice (after Expired a new one is fetched
\* first), and a failure other than Expired is the last thing the flow
\* does.
C17_ExpiredRefetches ==
  fn = "solanaToAptosFlow" =>
    /\ \A i \in 1..Len(submitted) : \A j \in 1..Len(submitted) :
         i # j => submitted[i] # submitted[j]
    /\ \A i \in 1..Len(submitted) : submitted[i] = i
    /\ Len(submitted) <= fresh
    /\ \A i \in 1..Len(legs) :
         legs[i].outcome = "threw"
           => i = Len(legs) /\ Returned /\ result.kind = "err"

\* both legs expired once and the flow went on to the end
C17_Witness ==
  /\ fn = "solanaToAptosFlow" /\ Returned /\ result.kind = "ok"
  /\ \E i \in 1..Len(legs) :
       legs[i] = [leg |-> "sourceSwap", outcome |-> "expired"]
  /\ \E i \in 1..Len(legs) :
       legs[i] = [leg |-> "burn", outcome |-> "expired"]
  /\ Len(submitted) = 4

C19_MappingComplete ==
  fn \in MapPollers /\ lookups > 0 => domain # "undefined"

\* C22: sendAndConfirmTransaction (swapSolanaKit.ts) reports 'Transaction
\* expired' only for a transaction the chain has not included.
C22_ExpiredOnlyIfNotIncluded ==
  fn = "swapSolanaKit" /\ Returned /\ result = Err(<<"Transaction expired">>)
    => ~landed

\* C23: sendAndConfirmTransaction (swapSolanaKit.ts) and
\* transactionSenderAndConfirmationWaiter (part_004): once abort is
\* signalled the resender finishes and the call returns or throws.
C23_AbortedReturns ==
  (fn \in {"swapSolanaKit", "part_004"} /\ aborted) ~> Returned

\* abort came while the resender slept; it made its one more round and the
\* call returned
C23_Witness ==
  /\ fn = "swapSolanaKit" /\ Returned /\ aborted
  /\ resender = "finished" /\ broadcasts = 2
  /\ result.kind = "ok"

\* C25: fetchAttestation (part_006) and waitForAttestation (solana-evm.ts):
\* the step in which a lookup fails, by a thrown network error or by a
\* response that is not OK, does not end the polling.
C25_LookupFailureTolerated ==
  [][(fn \in {"fetchAttestation", "solana_evm"}
        /\ seen' \cap {"notFound", "lookupThrew"} # {}
        /\ seen \cap {"notFound", "lookupThrew"} = {})
       => (pc' # "done")]_vars

\* C26: a poller that has returned has returned the attestation of a
\* message the API reported, never an absent one and never "PENDING".
C26_OnlyReadyReturned ==
  fn \in Pollers /\ Returned /\ result.kind = "ok"
    => /\ attestation.attestationSignature = payload.attestation
       /\ attestation.attestationSignature \notin {"", "undefined", "PENDING"}

\* C27: waitForAttestation (redeem-aptos-evm.ts, part_011) makes at most 120
\* lookups, every lookup that does not return the attestation counts as
\* one retry, and the call that throws has thrown the timeout error after
\* exactly 120 lookups.
C27_BudgetOf120 ==
  fn \in {"redeem_aptos_evm", "part_011_waitForAttestation"} =>
    /\ lookups <= 120
    /\ retries = pendings + faults
    /\ lookups = retries + (IF Returned /\ result.kind = "ok" THEN 1 ELSE 0)
    /\ Returned /\ result.kind = "err"
         => result.msg = <<"CCTP Attestation Timed Out">> /\ lookups = 120

\* the budget ran out, one of the 120 lookups having failed
C27_Witness ==
  /\ fn = "part_011_waitForAttestation" /\ Returned
  /\ result.kind = "err" /\ lookups = 120
  /\ faults = 1 /\ pendings = 119

\* C21: solanaToAptosFlow: the chain includes at most one source-swap
\* transaction and at most one burn transaction of a flow run.
C21_OneTransactionPerLeg ==
  fn = "solanaToAptosFlow" =>
    \A name \in {"sourceSwap", "burn"} :
      Cardinality({r \in onChain : r.leg = name}) <= 1

\* C24: aptosToPolygonSwap: the attestation is polled only with the hash
\* of a burn transaction that executeAptosInstruction saw succeed.
C24_PolledHashIsBurn ==
  fn = "aptosToPolygonSwap" =>
    \A j \in 1..Len(legs) :
      legs[j].leg = "attestation"
        => j > 1 /\ legs[j - 1] = [leg |-> "burn", outcome |-> "ok"]

\* C28: solanaToAptosFlow: the source swap and the bridge are each
\* submitted at most 5 times; after 5 Expired the flow throws the leg's
\* failure message, and it throws that message only then; the bridge starts
\* only after a confirmed source swap when the quote has a source swap
\* route; the attestation is polled only after a confirmed burn.
C28_FiveAttemptsPerLeg ==
  fn = "solanaToAptosFlow" =>
    /\ attempt <= 5
    /\ \A name \in {"sourceSwap", "burn"} :
         LET expired == {i \in 1..Len(legs) :
                           legs[i] = [leg |-> name, outcome |-> "expired"]}
             sent == {i \in 1..Len(legs) :
                        /\ legs[i].leg = name
                        /\ legs[i].outcome \in {"ok", "expired"}}
             top == IF name = "sourceSwap" THEN "swapTop" ELSE "bridgeTop"
             msg == IF name = "sourceSwap"
                    THEN <<"Swap failed after 5 attempts due to congestion.">>
                    ELSE <<"Bridge failed after retries.">>
         IN  /\ Cardinality(sent) <= 5
             /\ Cardinality(expired) = 5
                  => pc = top \/ (Returned /\ result = Err(msg))
             /\ Returned /\ result = Err(msg) => Cardinality(expired) = 5
    /\ \A j \in 1..Len(legs) :
         /\ legs[j].leg = "burn" /\ quote.sourceSwapRoute
              => \E i \in 1..(j - 1) :
                   legs[i] = [leg |-> "sourceSwap", outcome |-> "ok"]
         /\ legs[j].leg = "attestation"
              => \E i \in 1..(j - 1) :
                   legs[i] = [leg |-> "burn", outcome |-> "ok"]

\* the source swap was confirmed and the bridge expired five times
C28_Witness ==
  /\ fn = "solanaToAptosFlow" /\ Returned
  /\ result = Err(<<"Bridge failed after retries.">>)
  /\ \E i \in 1..Len(legs) :
       legs[i] = [leg |-> "sourceSwap", outcome |-> "ok"]

\* C29: EVM executors: the swap or burn transaction is broadcast only if
\* no approve transaction was sent or the approve transaction succeeded,
\* and after the approve receipt.
C29_ApproveBeforeSwap ==
  fn \in Executors =>
    \A j \in 1..Len(legs) :
      /\ legs[j].leg = "approve" => j = 1
      /\ legs[j].leg \in {"swap", "transfer"}
           /\ legs[j].outcome \in {"ok", "failedOnChain"}
           => \A i \in 1..(j - 1) : legs[i].outcome = "ok"

\* C30: redeem scripts: the target transaction is submitted only after the
\* poller returned and /v1/redeem answered with a valid payload (EVM: to
\* and data; Aptos: function); after any other answer nothing is submitted;
\* /v1/redeem is requested at most once.
C30_SubmitOnlyValidPayload ==
  fn \in Redeems =>
    /\ Cardinality({i \in 1..Len(legs) : legs[i].leg = "redeem"}) <= 1
    /\ \A j \in 1..Len(legs) :
         /\ legs[j].leg = "submit" =>
              /\ j = 3
              /\ legs[1] = [leg |-> "attestation", outcome |-> "ok"]
              /\ legs[2] = [leg |-> "redeem", outcome |-> "ok"]
              /\ redeemRes.status = 200 /\ redeemRes.payload
              /\ fn = "redeemAptosToEvm" => redeemRes.to /\ redeemRes.data
              /\ fn = "redeemSolanaToAptos" => redeemRes.function
         /\ legs[j].leg = "redeem" =>
              /\ j = 2
              /\ legs[1] = [leg |-> "attestation", outcome |-> "ok"]
              /\ legs[j].outcome = "threw" => Returned /\ Len(legs) = 2

\* the answer had a payload with to and without data: nothing was submitted
C30_Witness ==
  /\ fn = "redeemAptosToEvm" /\ Returned
  /\ redeemRes.status = 200 /\ redeemRes.payload
  /\ redeemRes.to /\ ~redeemRes.data
  /\ Len(legs) = 2

\* C32: sendSolanaTransaction (part_003): while no call has thrown and no
\* status or confirmation has shown the transaction confirmed, the
\* broadcasts made are exactly those of attempts 1, 4, 7, 10 and 13: the
\* helper is about to broadcast only in these attempts, and the number of
\* broadcasts is the number of these attempts gone through.
C32_BroadcastOn1_4_7_10_13 ==
  fn = "part_003" /\ seen \cap {"statusThrew", "sendThrew", "confirmed"} = {}
    => LET sending == {1, 4, 7, 10, 13}
           before == IF pc \in {"status", "sleep", "send"}
                     THEN attempt - 1 ELSE attempt
       IN  /\ attempt <= 15
           /\ broadcasts = Cardinality({k \in sending : k <= before})
           /\ pc \in {"sleep", "send", "confirm"} => attempt \in sending
           /\ pc = "idle" => attempt \notin sending

\* all 15 attempts were made and the transaction was broadcast five times
C32_Witness ==
  /\ fn = "part_003" /\ Returned
  /\ seen \cap {"statusThrew", "sendThrew", "confirmed"} = {}
  /\ attempt = 15 /\ broadcasts = 5

\* C31: the URL a flow's attestation poller fetches never has "undefined"
\* as its domain segment: the chain each flow passes to its poller has an
\* entry in the mapping of the flow's file; in particular the flows of
\* evm-solana.ts, part_009, part_012 and part_014 look up the domains of
\* polygon (7), Avalanche (1), solana (5), ethereum (0) and Avalanche (1).
C31_FlowDomainDefined ==
  fn \in Flows \cup Redeems =>
    /\ domain # "undefined"
    /\ (\E i \in 1..Len(legs) : legs[i].leg = "attestation") =>
         /\ domain \in {"0", "1", "3", "5", "6", "7", "8", "9"}
         /\ fn = "polygonToSolanaSwap" => domain = "7"
         /\ fn = "avalancheToSolanaSwap" => domain = "1"
         /\ fn = "part_009_redeemSolanaToAptos" => domain = "5"
         /\ fn = "redeemEvmToAptos" => domain = "0"
         /\ fn = "evmToAptosSwap" => domain = "1"

\* the part_009 script polled with solana, one of the two entries of its map
C31_Witness ==
  /\ fn = "part_009_redeemSolanaToAptos"
  /\ \E i \in 1..Len(legs) :
       legs[i] = [leg |-> "attestation", outcome |-> "ok"]
  /\ domain = "5"
====
